---- MODULE Spec2Model ----
(***************************************************************************)
(* Credential resolution and authentication-material lifecycle of the      *)
(* Snowflake failed-queries dashboard (main.go).                           *)
(*                                                                         *)
(* Strings that the code inspects character by character (secret values)   *)
(* are sequences of one-character strings; identifiers that the code only  *)
(* compares for equality or emptiness are TLA+ strings.                    *)
(***************************************************************************)
EXTENDS Integers, Sequences, FiniteSets, TLC

VARIABLES
    env,        \* the process environment: variable name -> unset, or its value
    fs,         \* the files the program may read: path -> file
    pc,         \* position of main(): which statement runs next
    config,     \* *Config returned by loadConfig (NilConfig if none)
    err,        \* error that ended the run, outermost message first (NoErr if none)
    db,         \* *sql.DB returned by getSnowflakeConnection (NilDB if none)
    privateKey, \* *rsa.PrivateKey returned by getSnowflakeConnection (NilKey if none)
    bufs,       \* the byte buffers parsePrivateKey obtained, as it left them
    calls,      \* the library routines parsePrivateKey invoked, in order
    sec,        \* getSecretOrEnv called on its own: arguments and result
    mem,        \* the storage behind the secret strings and the byte slices made of them
    done,       \* the steps of startup that have been attempted, in order
    handlers,   \* the patterns registered with http.HandleFunc
    resp,       \* the response to the request handled last (NoResp if none)
    warehouse,  \* the credential the warehouse accepts, and whether it was rotated
    conn,       \* the connection the pool opened last (NoConn before the first)
    aux         \* arguments and results of the operations run on their own

vars == <<env, fs, pc, config, err, db, privateKey, bufs, calls, sec,
          mem, done, handlers, resp, warehouse, conn, aux>>

\* the state of main() and of what it serves
mainVars == <<env, fs, pc, config, err, db, privateKey, bufs, calls,
              mem, done, handlers, resp, warehouse, conn>>

(***************************************************************************)
(* Bounds                                                                  *)
(***************************************************************************)
\* longest secret-file content / environment value, in characters
MaxLen == 2

(***************************************************************************)
(* Strings                                                                 *)
(***************************************************************************)
\* the characters secret values are drawn from: a blank and a letter
Chars == {" ", "a"}

EmptyStr == << >>

Strs == UNION {[1..n -> Chars] : n \in 0..MaxLen}

\* unicode.IsSpace on the characters strings.TrimSpace strips
IsSpace(c) == c \in {" ", "\n", "\t", "\r"}

RECURSIVE TrimLeft(_)
TrimLeft(s) ==
    IF s = EmptyStr THEN EmptyStr
    ELSE IF IsSpace(Head(s)) THEN TrimLeft(Tail(s)) ELSE s

RECURSIVE TrimRight(_)
TrimRight(s) ==
    IF s = EmptyStr THEN EmptyStr
    ELSE IF IsSpace(s[Len(s)]) THEN TrimRight(SubSeq(s, 1, Len(s) - 1)) ELSE s

\* strings.TrimSpace: strip leading, then trailing white space
TrimSpace(s) == TrimRight(TrimLeft(s))

(***************************************************************************)
(* The process environment and the secret store                            *)
(***************************************************************************)
\* an environment variable is unset, or set to a value (possibly empty)
EnvUnset == [set |-> FALSE, val |-> EmptyStr]

EnvVals == {EnvUnset} \cup {[set |-> TRUE, val |-> v] : v \in Strs}

\* os.Getenv: the value, or "" when the variable is unset
Getenv(v) == IF v.set THEN v.val ELSE EmptyStr

\* a file: missing, present but not openable, or openable with some content;
\* ioerr: reading fails after the content has been delivered
FileMissing == [exists |-> FALSE, readable |-> FALSE, ioerr |-> FALSE, data |-> EmptyStr]

\* (the content of a file that cannot be opened is never seen by the program)
FileUnreadable == [exists |-> TRUE, readable |-> FALSE, ioerr |-> FALSE, data |-> EmptyStr]

FileWith(d) == [exists |-> TRUE, readable |-> TRUE, ioerr |-> FALSE, data |-> d]

SecretFiles == {FileMissing, FileUnreadable} \cup {FileWith(d) : d \in Strs}

\* os.ReadFile: (nil, err) when the file cannot be opened; otherwise what was
\* read, with the error of the read that failed, if one did
ReadFile(f) ==
    IF f.exists /\ f.readable
    THEN [err |-> f.ioerr, data |-> f.data]
    ELSE [err |-> TRUE, data |-> EmptyStr]

\* the two secrets the program resolves, and the variables they fall back to
SecretNames == {"snowflake_password", "snowflake_private_key_passphrase"}

SecretEnvNames == {"SNOWFLAKE_PASSWORD", "SNOWFLAKE_PRIVATE_KEY_PASSPHRASE"}

\* filepath.Join("/run/secrets", secretName)
secretPath(secretName) ==
    CASE secretName = "snowflake_password" -> "/run/secrets/snowflake_password"
      [] secretName = "snowflake_private_key_passphrase" ->
            "/run/secrets/snowflake_private_key_passphrase"

SecretPaths == {secretPath(n) : n \in SecretNames}

\* (getSecretOrEnv with the two sources tried in the other order)
getSecretOrEnv_EnvFirst(files, environ, secretName, envName) ==
    LET r == ReadFile(files[secretPath(secretName)])
    IN  IF environ[envName].set THEN Getenv(environ[envName])
        ELSE IF ~r.err THEN TrimSpace(r.data) ELSE EmptyStr

\* (getSecretOrEnv trimming whatever it returns)
getSecretOrEnv_TrimBoth(files, environ, secretName, envName) ==
    LET r == ReadFile(files[secretPath(secretName)])
    IN  TrimSpace(IF ~r.err THEN r.data ELSE Getenv(environ[envName]))

\* (getSecretOrEnv falling back to the variable when the file holds nothing
\* but white space)
getSecretOrEnv_BlankFallsBack(files, environ, secretName, envName) ==
    LET r == ReadFile(files[secretPath(secretName)])
    IN  IF ~r.err /\ TrimSpace(r.data) # EmptyStr THEN TrimSpace(r.data)
        ELSE Getenv(environ[envName])

\* getSecretOrEnv over the files (path -> file) and the environment
\* (name -> variable) of the process: the secret file wins when it can be read
getSecretOrEnv(files, environ, secretName, envName) ==
    LET r == ReadFile(files[secretPath(secretName)])
    IN  IF ~r.err THEN TrimSpace(r.data) ELSE Getenv(environ[envName])

(***************************************************************************)
(* Errors: the message each failing return carries                         *)
(***************************************************************************)
NoErr == << >>

\* fmt.Errorf("...: %w", err): the message put in front of the chain
Wrap(msg, e) == <<msg>> \o e

\* the innermost error of a chain
Cause(e) == e[Len(e)]

\* loadConfig
ErrMissingRequired == "SNOWFLAKE_ACCOUNT and SNOWFLAKE_USER are required"

ErrMissingPassword == "SNOWFLAKE_PASSWORD is required for password authentication"

ErrMissingKey ==
    "either SNOWFLAKE_PRIVATE_KEY_PATH or SNOWFLAKE_PRIVATE_KEY_CONTENT is required"

ErrInvalidAuthType == "invalid SNOWFLAKE_AUTH_TYPE"

\* parsePrivateKey
ErrReadKeyFile == "failed to read private key file"

ErrBase64 == "failed to decode base64 private key"

\* base64.CorruptInputError: its message names the offset of the illegal character
CorruptInputError(offset) ==
    CASE offset = 0 -> "illegal base64 data at input byte 0"
      [] offset = 1 -> "illegal base64 data at input byte 1"
      [] offset = 2 -> "illegal base64 data at input byte 2"
      [] offset = 3 -> "illegal base64 data at input byte 3"
      [] OTHER -> "illegal base64 data at input byte 4"

ErrNoPEMBlock == "failed to parse PEM block containing the private key"

ErrNoPassphrase == "private key is encrypted but no passphrase provided"

ErrDecryptPEM == "failed to decrypt PEM block"

ErrEncryptedPKCS8 == "failed to parse encrypted PKCS8 private key"

ErrNotRSA == "private key is not RSA type"

\* the error of x509.ParsePKCS1PrivateKey, returned as it is
ErrPKCS1 == "x509: failed to parse private key"

\* the error kinds of the design, as sets of messages
InvalidAuthMode == {ErrInvalidAuthType}

MissingRequired == {ErrMissingRequired}

MissingCredential == {ErrMissingPassword, ErrMissingKey}

PassphraseRequired == {ErrNoPassphrase}

DecryptionFailed == {ErrDecryptPEM, ErrEncryptedPKCS8}

UnsupportedKeyType == {ErrNotRSA}

(***************************************************************************)
(* Key material.  A byte is a symbol; Zero is the zero byte.  Each layer   *)
(* of the encoding (DER structure, encryption, PEM armour, base64 text)    *)
(* is a sequence of symbols and each decoder undoes one layer.             *)
(***************************************************************************)
Zero == "00"

Zeroed(buf) == [i \in 1..Len(buf) |-> Zero]

AllZero(buf) == \A i \in 1..Len(buf) : buf[i] = Zero

\* DER structures of private keys: PKCS#8 (any algorithm), PKCS#1 (RSA only),
\* SEC 1 (EC only), and bytes that are no key at all
DerPKCS8(alg) == <<"pkcs8", alg, "key">>

DerPKCS1 == <<"pkcs1", "rsa", "key">>

DerSEC1 == <<"sec1", "ec", "key">>

DerJunk == <<"junk", "junk", "junk">>

DerSymbols == {"pkcs8", "pkcs1", "sec1", "rsa", "ec", "key", "junk", "ENC", "PBES2"}

\* the one passphrase the encrypted sample keys are encrypted under
KeyPassphrase == <<"a">>

\* legacy (DEK-Info) encryption and PKCS#8 (PBES2) encryption under KeyPassphrase
LegacyEncrypt(der) == <<"ENC">> \o der

PBES2Encrypt(der) == <<"PBES2">> \o der

\* the RSA key the sample key files hold (p = 3, q = 11, e = 3, d = 7)
RsaKey ==
    [isNil |-> FALSE, N |-> 33, E |-> 3, D |-> 7, Primes |-> <<3, 11>>,
     Dp |-> 1, Dq |-> 7, Qinv |-> 2, CRTValues |-> << >>]

NilKey ==
    [isNil |-> TRUE, N |-> 0, E |-> 0, D |-> 0, Primes |-> << >>,
     Dp |-> 0, Dq |-> 0, Qinv |-> 0, CRTValues |-> << >>]

\* x509.ParsePKCS8PrivateKey: the key and its algorithm, or an error
x509ParsePKCS8PrivateKey(der) ==
    IF Len(der) = 3 /\ der[1] = "pkcs8" /\ der[2] \in {"rsa", "ec"} /\ der[3] = "key"
    THEN [err |-> FALSE, type |-> der[2]]
    ELSE [err |-> TRUE, type |-> ""]

\* x509.ParsePKCS1PrivateKey: an RSA key, or an error
x509ParsePKCS1PrivateKey(der) ==
    IF der = DerPKCS1 THEN [err |-> FALSE, type |-> "rsa"] ELSE [err |-> TRUE, type |-> ""]

\* x509.DecryptPEMBlock: the plaintext under the right password; under a wrong
\* one the padding check fails, unless the garbage happens to end in valid
\* padding (padOK), and then the garbage is returned without an error
x509DecryptPEMBlock(bytes, password, padOK) ==
    IF Len(bytes) = 0 \/ bytes[1] # "ENC" THEN [err |-> TRUE, data |-> << >>]
    ELSE IF password = KeyPassphrase THEN [err |-> FALSE, data |-> Tail(bytes)]
    ELSE IF padOK THEN [err |-> FALSE, data |-> [i \in 1..(Len(bytes) - 1) |-> "junk"]]
    ELSE [err |-> TRUE, data |-> << >>]

\* pkcs8.ParsePKCS8PrivateKey (youmark): decrypt, then x509.ParsePKCS8PrivateKey;
\* every failure after the structure was read is "incorrect password"
pkcs8ParsePKCS8PrivateKey(der, password) ==
    IF password = EmptyStr THEN x509ParsePKCS8PrivateKey(der)
    ELSE IF Len(der) = 0 \/ der[1] # "PBES2" THEN [err |-> TRUE, type |-> ""]
    ELSE IF password = KeyPassphrase THEN x509ParsePKCS8PrivateKey(Tail(der))
    ELSE [err |-> TRUE, type |-> ""]

\* the base64 text of one DER byte inside the PEM armour
PemArmor(b) ==
    CASE b = "pkcs8" -> "cGtjczg="
      [] b = "pkcs1" -> "cGtjczE="
      [] b = "sec1"  -> "c2VjMQ=="
      [] b = "rsa"   -> "cnNh"
      [] b = "ec"    -> "ZWM="
      [] b = "key"   -> "a2V5"
      [] b = "junk"  -> "anVuaw=="
      [] b = "ENC"   -> "RU5D"
      [] b = "PBES2" -> "UEJFUzI="

PemTypes == {"PRIVATE KEY", "RSA PRIVATE KEY", "EC PRIVATE KEY", "ENCRYPTED PRIVATE KEY"}

\* pem.EncodeToMemory: BEGIN line, optional DEK-Info header, body, END line
PemEncode(type, dek, der) ==
    <<"-----BEGIN", type>> \o (IF dek THEN <<"DEK-Info">> ELSE << >>)
        \o [i \in 1..Len(der) |-> PemArmor(der[i])] \o <<"-----END">>

NilBlock == [isNil |-> TRUE, Type |-> "", DEKInfo |-> FALSE, Bytes |-> << >>]

\* pem.Decode: the block, its Bytes a fresh buffer, or nil when the data do
\* not hold one
pemDecode(data) ==
    IF Len(data) < 3 \/ data[1] # "-----BEGIN" \/ data[2] \notin PemTypes
         \/ data[Len(data)] # "-----END"
    THEN NilBlock
    ELSE LET dek  == Len(data) >= 4 /\ data[3] = "DEK-Info"
             body == SubSeq(data, IF dek THEN 4 ELSE 3, Len(data) - 1)
         IN  IF \A i \in 1..Len(body) : \E b \in DerSymbols : PemArmor(b) = body[i]
             THEN [isNil |-> FALSE, Type |-> data[2], DEKInfo |-> dek,
                   Bytes |-> [i \in 1..Len(body) |->
                                CHOOSE b \in DerSymbols : PemArmor(b) = body[i]]]
             ELSE NilBlock

\* x509.IsEncryptedPEMBlock: the block carries a DEK-Info header
x509IsEncryptedPEMBlock(block) == block.DEKInfo

\* base64.StdEncoding of a byte, as one character of SNOWFLAKE_PRIVATE_KEY_CONTENT;
\* BadChar is a character outside the base64 alphabet
B64Char(b) == <<"b64", b>>

BadChar == <<"!", "!">>

StdEncode(bytes) == [i \in 1..Len(bytes) |-> B64Char(bytes[i])]

\* the bytes decoded before the first illegal character
RECURSIVE DecodedPrefix(_)
DecodedPrefix(s) ==
    IF s = << >> \/ Head(s)[1] # "b64" THEN << >>
    ELSE <<Head(s)[2]>> \o DecodedPrefix(Tail(s))

\* base64.StdEncoding.DecodeString: what was decoded, and an error if an
\* illegal character stopped the decoding
base64DecodeString(s) ==
    [err |-> \E i \in 1..Len(s) : s[i][1] # "b64", data |-> DecodedPrefix(s),
     offset |-> Len(DecodedPrefix(s))]

\* The key files and key contents a deployment may supply
PemSamples ==
    { PemEncode("PRIVATE KEY", FALSE, DerPKCS8("rsa")),
      PemEncode("RSA PRIVATE KEY", FALSE, DerPKCS1),
      PemEncode("PRIVATE KEY", FALSE, DerPKCS8("ec")),
      PemEncode("EC PRIVATE KEY", FALSE, DerSEC1),
      PemEncode("PRIVATE KEY", FALSE, DerJunk),
      PemEncode("RSA PRIVATE KEY", TRUE, LegacyEncrypt(DerPKCS1)),
      PemEncode("ENCRYPTED PRIVATE KEY", FALSE, PBES2Encrypt(DerPKCS8("rsa"))),
      PemEncode("ENCRYPTED PRIVATE KEY", FALSE, PBES2Encrypt(DerPKCS8("ec"))),
      <<"not", "a", "key">>,
      << >> }

KeyPath == "/run/secrets/snowflake_key.p8"

\* the key file: missing, one whose read fails part-way, or a sample
KeyFiles ==
    {FileMissing}
    \cup {[exists |-> TRUE, readable |-> TRUE, ioerr |-> TRUE,
           data |-> <<"-----BEGIN", "PRIVATE KEY">>]}
    \cup {FileWith(d) : d \in PemSamples}

\* SNOWFLAKE_PRIVATE_KEY_CONTENT: the base64 text of a sample, or one with a
\* stray character after the first bytes
KeyContents ==
    {StdEncode(d) : d \in PemSamples \ {<< >>}}
    \cup {StdEncode(<<"-----BEGIN", "PRIVATE KEY">>) \o <<BadChar>>
            \o StdEncode(<<"cGtjczg=">>),
          StdEncode(<<"-----BEGIN">>) \o <<BadChar>>
            \o StdEncode(<<"PRIVATE KEY", "cGtjczg=">>)}

(***************************************************************************)
(* Config and loadConfig                                                   *)
(***************************************************************************)
AuthTypePassword == "password"

AuthTypeKeyPair == "keypair"

NilConfig == [isNil |-> TRUE]

\* an environment variable holding an identifier (a TLA+ string)
StrUnset == [set |-> FALSE, val |-> ""]

StrSet(v) == [set |-> TRUE, val |-> v]

GetenvStr(v) == IF v.set THEN v.val ELSE ""

\* (the auth type compared without regard to case)
authTypeOf_CaseFold(raw) ==
    IF raw = "" \/ raw = "Password" THEN AuthTypePassword
    ELSE IF raw = "KEYPAIR" THEN AuthTypeKeyPair ELSE raw

\* authType := AuthType(os.Getenv("SNOWFLAKE_AUTH_TYPE")), "" meaning password
authTypeOf(raw) == IF raw = "" THEN AuthTypePassword ELSE raw

\* (only the account checked)
commonMissing_AccountOnly(c) == c.Account = ""

\* config.Account == "" || config.User == ""
commonMissing(c) == c.Account = "" \/ c.User = ""

\* (the password never checked)
passwordMissing_Never(c) == FALSE

\* config.Password == ""
passwordMissing(c) == c.Password = EmptyStr

\* (both locators demanded)
keyMissing_Either(c) == c.PrivateKeyPath = "" \/ c.PrivateKeyContent = EmptyStr

\* (the locators never checked)
keyMissing_Never(c) == FALSE

\* config.PrivateKeyPath == "" && config.PrivateKeyContent == ""
keyMissing(c) == c.PrivateKeyPath = "" /\ c.PrivateKeyContent = EmptyStr

\* (loadConfig validating the auth type before the account and the user, the
\* order of the design document)
loadConfig_AuthTypeFirst(environ, files) ==
    LET raw      == GetenvStr(environ["SNOWFLAKE_AUTH_TYPE"])
        authType == authTypeOf(raw)
        c0 == [isNil     |-> FALSE,
               Account   |-> GetenvStr(environ["SNOWFLAKE_ACCOUNT"]),
               User      |-> GetenvStr(environ["SNOWFLAKE_USER"]),
               Database  |-> GetenvStr(environ["SNOWFLAKE_DATABASE"]),
               Schema    |-> GetenvStr(environ["SNOWFLAKE_SCHEMA"]),
               Warehouse |-> GetenvStr(environ["SNOWFLAKE_WAREHOUSE"]),
               Role      |-> GetenvStr(environ["SNOWFLAKE_ROLE"]),
               AuthType  |-> authType,
               Password  |-> EmptyStr,
               PrivateKeyPath       |-> "",
               PrivateKeyContent    |-> EmptyStr,
               PrivateKeyPassphrase |-> EmptyStr]
        cp == [c0 EXCEPT !.Password =
                 getSecretOrEnv(files, environ, "snowflake_password", "SNOWFLAKE_PASSWORD")]
        ck == [c0 EXCEPT
                 !.PrivateKeyPath = GetenvStr(environ["SNOWFLAKE_PRIVATE_KEY_PATH"]),
                 !.PrivateKeyContent = Getenv(environ["SNOWFLAKE_PRIVATE_KEY_CONTENT"]),
                 !.PrivateKeyPassphrase =
                     getSecretOrEnv(files, environ, "snowflake_private_key_passphrase",
                                    "SNOWFLAKE_PRIVATE_KEY_PASSPHRASE")]
    IN  IF authType \notin {AuthTypePassword, AuthTypeKeyPair}
        THEN [config |-> NilConfig, err |-> <<ErrInvalidAuthType>>, resolved |-> {}]
        ELSE IF commonMissing(c0)
        THEN [config |-> NilConfig, err |-> <<ErrMissingRequired>>, resolved |-> {}]
        ELSE IF authType = AuthTypePassword
        THEN IF passwordMissing(cp)
             THEN [config |-> NilConfig, err |-> <<ErrMissingPassword>>,
                   resolved |-> {"snowflake_password"}]
             ELSE [config |-> cp, err |-> NoErr, resolved |-> {"snowflake_password"}]
        ELSE IF keyMissing(ck)
             THEN [config |-> NilConfig, err |-> <<ErrMissingKey>>,
                   resolved |-> {"snowflake_private_key_passphrase"}]
             ELSE [config |-> ck, err |-> NoErr,
                   resolved |-> {"snowflake_private_key_passphrase"}]

\* loadConfig, on the environment as godotenv.Load has left it: the Config
\* and a nil error, or nil and the error
loadConfig(environ, files) ==
    LET raw      == GetenvStr(environ["SNOWFLAKE_AUTH_TYPE"])
        authType == authTypeOf(raw)
        c0 == [isNil     |-> FALSE,
               Account   |-> GetenvStr(environ["SNOWFLAKE_ACCOUNT"]),
               User      |-> GetenvStr(environ["SNOWFLAKE_USER"]),
               Database  |-> GetenvStr(environ["SNOWFLAKE_DATABASE"]),
               Schema    |-> GetenvStr(environ["SNOWFLAKE_SCHEMA"]),
               Warehouse |-> GetenvStr(environ["SNOWFLAKE_WAREHOUSE"]),
               Role      |-> GetenvStr(environ["SNOWFLAKE_ROLE"]),
               AuthType  |-> authType,
               Password  |-> EmptyStr,
               PrivateKeyPath       |-> "",
               PrivateKeyContent    |-> EmptyStr,
               PrivateKeyPassphrase |-> EmptyStr]
    IN  IF commonMissing(c0)
        THEN [config |-> NilConfig, err |-> <<ErrMissingRequired>>, resolved |-> {}]
        ELSE IF authType = AuthTypePassword
        THEN LET c == [c0 EXCEPT !.Password =
                         getSecretOrEnv(files, environ, "snowflake_password",
                                        "SNOWFLAKE_PASSWORD")]
             IN  IF passwordMissing(c)
                 THEN [config |-> NilConfig, err |-> <<ErrMissingPassword>>,
                       resolved |-> {"snowflake_password"}]
                 ELSE [config |-> c, err |-> NoErr, resolved |-> {"snowflake_password"}]
        ELSE IF authType = AuthTypeKeyPair
        THEN LET c == [c0 EXCEPT
                         !.PrivateKeyPath = GetenvStr(environ["SNOWFLAKE_PRIVATE_KEY_PATH"]),
                         !.PrivateKeyContent = Getenv(environ["SNOWFLAKE_PRIVATE_KEY_CONTENT"]),
                         !.PrivateKeyPassphrase =
                             getSecretOrEnv(files, environ,
                                            "snowflake_private_key_passphrase",
                                            "SNOWFLAKE_PRIVATE_KEY_PASSPHRASE")]
             IN  IF keyMissing(c)
                 THEN [config |-> NilConfig, err |-> <<ErrMissingKey>>,
                       resolved |-> {"snowflake_private_key_passphrase"}]
                 ELSE [config |-> c, err |-> NoErr,
                       resolved |-> {"snowflake_private_key_passphrase"}]
        ELSE [config |-> NilConfig, err |-> <<ErrInvalidAuthType>>, resolved |-> {}]

(***************************************************************************)
(* parsePrivateKey                                                         *)
(***************************************************************************)
\* (the passphrase never demanded)
passphraseMissing_Never(cfg) == FALSE

\* config.PrivateKeyPassphrase == "", asked before either decryption
passphraseMissing(cfg) == cfg.PrivateKeyPassphrase = EmptyStr

NoBufs == [pemBytes |-> << >>, blockBytes |-> << >>, decrypted |-> << >>]

\* a return of parsePrivateKey: the deferred closures registered so far run
\* and zero the buffers they captured.  deferred names them by the variable
\* they zero; privateKeyBytes is "block" (it is block.Bytes), "decrypted" (the
\* buffer x509.DecryptPEMBlock returned) or "nil".  trace lists the library
\* routines invoked, in order.
Return(key, e, b, privateKeyBytes, deferred, trace) ==
    LET zeroBlock == "block" \in deferred
                       \/ ("privateKeyBytes" \in deferred /\ privateKeyBytes = "block")
        zeroDecr  == privateKeyBytes = "decrypted"
                       /\ ("decrypted" \in deferred \/ "privateKeyBytes" \in deferred)
    IN  [key   |-> key,
         err   |-> e,
         calls |-> trace,
         bufs  |-> [pemBytes   |-> IF "pemBytes" \in deferred
                                   THEN Zeroed(b.pemBytes) ELSE b.pemBytes,
                    blockBytes |-> IF zeroBlock THEN Zeroed(b.blockBytes) ELSE b.blockBytes,
                    decrypted  |-> IF zeroDecr THEN Zeroed(b.decrypted) ELSE b.decrypted]]

\* (the plaintext parsed as PKCS#1 first and as PKCS#8 on failure)
parsePlain_PKCS1First(bytes, b, privateKeyBytes, deferred, trace) ==
    LET d  == deferred \cup {"privateKeyBytes"}
        p8 == x509ParsePKCS8PrivateKey(bytes)
        p1 == x509ParsePKCS1PrivateKey(bytes)
        c1 == Append(trace, "x509.ParsePKCS1PrivateKey")
        c8 == Append(c1, "x509.ParsePKCS8PrivateKey")
    IN  IF ~p1.err
        THEN Return(RsaKey, NoErr, b, privateKeyBytes, d, c1)
        ELSE IF p8.err
             THEN Return(NilKey, <<ErrPKCS1>>, b, privateKeyBytes, d, c8)
             ELSE IF p8.type # "rsa"
             THEN Return(NilKey, <<ErrNotRSA>>, b, privateKeyBytes, d, c8)
             ELSE Return(RsaKey, NoErr, b, privateKeyBytes, d, c8)

\* the lines after the two branches for encrypted keys: parse the plaintext
\* as PKCS#8, on failure as PKCS#1
parsePlain(bytes, b, privateKeyBytes, deferred, trace) ==
    LET d  == deferred \cup {"privateKeyBytes"}
        p8 == x509ParsePKCS8PrivateKey(bytes)
        p1 == x509ParsePKCS1PrivateKey(bytes)
        c8 == Append(trace, "x509.ParsePKCS8PrivateKey")
        c1 == Append(c8, "x509.ParsePKCS1PrivateKey")
    IN  IF p8.err
        THEN IF p1.err
             THEN Return(NilKey, <<ErrPKCS1>>, b, privateKeyBytes, d, c1)
             ELSE Return(RsaKey, NoErr, b, privateKeyBytes, d, c1)
        ELSE IF p8.type # "rsa"
             THEN Return(NilKey, <<ErrNotRSA>>, b, privateKeyBytes, d, c8)
             ELSE Return(RsaKey, NoErr, b, privateKeyBytes, d, c8)

\* (parsePrivateKey taking the base64 content when both locators are set)
parsePrivateKey_ContentFirst(cfg, files, padOK) ==
    LET fromFile == cfg.PrivateKeyPath # "" /\ cfg.PrivateKeyContent = EmptyStr
        fromContent == ~fromFile /\ cfg.PrivateKeyContent # EmptyStr
        rd == IF fromFile THEN ReadFile(files[cfg.PrivateKeyPath])
              ELSE IF fromContent THEN base64DecodeString(cfg.PrivateKeyContent)
              ELSE [err |-> FALSE, data |-> << >>, offset |-> 0]
        t1 == IF fromFile THEN <<"os.ReadFile">>
              ELSE IF fromContent THEN <<"base64.DecodeString">> ELSE << >>
        b1 == [NoBufs EXCEPT !.pemBytes = rd.data]
    IN  IF rd.err
        THEN Return(NilKey,
                    IF fromFile THEN <<ErrReadKeyFile>>
                    ELSE <<ErrBase64, CorruptInputError(rd.offset)>>,
                    b1, "nil", {}, t1)
        ELSE
        LET block == pemDecode(rd.data)
            b2    == [b1 EXCEPT !.blockBytes = block.Bytes]
            t2    == Append(t1, "pem.Decode")
            both  == {"pemBytes", "block"}
        IN  IF block.isNil
            THEN Return(NilKey, <<ErrNoPEMBlock>>, b1, "nil", {"pemBytes"}, t2)
            ELSE IF x509IsEncryptedPEMBlock(block)
            THEN IF passphraseMissing(cfg)
                 THEN Return(NilKey, <<ErrNoPassphrase>>, b2, "nil", both, t2)
                 ELSE LET dec == x509DecryptPEMBlock(block.Bytes,
                                                     cfg.PrivateKeyPassphrase, padOK)
                          b3  == [b2 EXCEPT !.decrypted = dec.data]
                          t3  == Append(t2, "x509.DecryptPEMBlock")
                      IN  IF dec.err
                          THEN Return(NilKey, <<ErrDecryptPEM>>, b3, "decrypted", both, t3)
                          ELSE parsePlain(dec.data, b3, "decrypted",
                                          both \cup {"decrypted"}, t3)
            ELSE IF block.Type = "ENCRYPTED PRIVATE KEY"
            THEN IF passphraseMissing(cfg)
                 THEN Return(NilKey, <<ErrNoPassphrase>>, b2, "nil", both, t2)
                 ELSE LET k  == pkcs8ParsePKCS8PrivateKey(block.Bytes,
                                                          cfg.PrivateKeyPassphrase)
                          t3 == Append(t2, "pkcs8.ParsePKCS8PrivateKey")
                      IN  IF k.err
                          THEN Return(NilKey, <<ErrEncryptedPKCS8>>, b2, "nil", both, t3)
                          ELSE IF k.type # "rsa"
                          THEN Return(NilKey, <<ErrNotRSA>>, b2, "nil", both, t3)
                          ELSE Return(RsaKey, NoErr, b2, "nil", both, t3)
            ELSE parsePlain(block.Bytes, b2, "block", both, t2)

parsePrivateKey(cfg, files, padOK) ==
    LET fromFile == cfg.PrivateKeyPath # ""
        fromContent == ~fromFile /\ cfg.PrivateKeyContent # EmptyStr
        rd == IF fromFile THEN ReadFile(files[cfg.PrivateKeyPath])
              ELSE IF fromContent THEN base64DecodeString(cfg.PrivateKeyContent)
              ELSE [err |-> FALSE, data |-> << >>, offset |-> 0]
        t1 == IF fromFile THEN <<"os.ReadFile">>
              ELSE IF fromContent THEN <<"base64.DecodeString">> ELSE << >>
        b1 == [NoBufs EXCEPT !.pemBytes = rd.data]
    IN  IF rd.err
        THEN Return(NilKey,
                    IF fromFile THEN <<ErrReadKeyFile>>
                    ELSE <<ErrBase64, CorruptInputError(rd.offset)>>,
                    b1, "nil", {}, t1)
        ELSE
        LET block == pemDecode(rd.data)
            b2    == [b1 EXCEPT !.blockBytes = block.Bytes]
            t2    == Append(t1, "pem.Decode")
            both  == {"pemBytes", "block"}
        IN  IF block.isNil
            THEN Return(NilKey, <<ErrNoPEMBlock>>, b1, "nil", {"pemBytes"}, t2)
            ELSE IF x509IsEncryptedPEMBlock(block)
            THEN IF passphraseMissing(cfg)
                 THEN Return(NilKey, <<ErrNoPassphrase>>, b2, "nil", both, t2)
                 ELSE LET dec == x509DecryptPEMBlock(block.Bytes,
                                                     cfg.PrivateKeyPassphrase, padOK)
                          b3  == [b2 EXCEPT !.decrypted = dec.data]
                          t3  == Append(t2, "x509.DecryptPEMBlock")
                      IN  IF dec.err
                          THEN Return(NilKey, <<ErrDecryptPEM>>, b3, "decrypted", both, t3)
                          ELSE parsePlain(dec.data, b3, "decrypted",
                                          both \cup {"decrypted"}, t3)
            ELSE IF block.Type = "ENCRYPTED PRIVATE KEY"
            THEN IF passphraseMissing(cfg)
                 THEN Return(NilKey, <<ErrNoPassphrase>>, b2, "nil", both, t2)
                 ELSE LET k  == pkcs8ParsePKCS8PrivateKey(block.Bytes,
                                                          cfg.PrivateKeyPassphrase)
                          t3 == Append(t2, "pkcs8.ParsePKCS8PrivateKey")
                      IN  IF k.err
                          THEN Return(NilKey, <<ErrEncryptedPKCS8>>, b2, "nil", both, t3)
                          ELSE IF k.type # "rsa"
                          THEN Return(NilKey, <<ErrNotRSA>>, b2, "nil", both, t3)
                          ELSE Return(RsaKey, NoErr, b2, "nil", both, t3)
            ELSE parsePlain(block.Bytes, b2, "block", both, t2)

(***************************************************************************)
(* getSnowflakeConnection                                                  *)
(***************************************************************************)
NilDB == [isNil |-> TRUE, dsn |-> << >>]

\* url.QueryEscape of one character: a letter stays, a blank becomes "+",
\* any other character becomes "%" and its two hexadecimal digits
escapeChar(c) ==
    CASE c = " " -> <<"+">>
      [] c = ":" -> <<"%", "3", "A">>
      [] c = "@" -> <<"%", "4", "0">>
      [] c = "/" -> <<"%", "2", "F">>
      [] c = "?" -> <<"%", "3", "F">>
      [] c = "&" -> <<"%", "2", "6">>
      [] c = "=" -> <<"%", "3", "D">>
      [] c = "%" -> <<"%", "2", "5">>
      [] c = "+" -> <<"%", "2", "B">>
      [] OTHER -> <<c>>

\* url.QueryEscape
RECURSIVE QueryEscape(_)
QueryEscape(s) ==
    IF s = << >> THEN << >> ELSE escapeChar(Head(s)) \o QueryEscape(Tail(s))

\* the character "%" and two hexadecimal digits stand for
hexChar(h, l) ==
    CASE h = "3" /\ l = "A" -> ":"
      [] h = "4" /\ l = "0" -> "@"
      [] h = "2" /\ l = "F" -> "/"
      [] h = "3" /\ l = "F" -> "?"
      [] h = "2" /\ l = "6" -> "&"
      [] h = "3" /\ l = "D" -> "="
      [] h = "2" /\ l = "5" -> "%"
      [] h = "2" /\ l = "B" -> "+"
      [] OTHER -> "%"

\* url.QueryUnescape, by which the reader of a descriptor undoes QueryEscape
RECURSIVE QueryUnescape(_)
QueryUnescape(s) ==
    IF s = << >> THEN << >>
    ELSE IF Head(s) = "+" THEN <<" ">> \o QueryUnescape(Tail(s))
    ELSE IF Head(s) = "%" /\ Len(s) >= 3
    THEN <<hexChar(s[2], s[3])>> \o QueryUnescape(SubSeq(s, 4, Len(s)))
    ELSE <<Head(s)>> \o QueryUnescape(Tail(s))

\* the credential a connection opened from the descriptor presents
credential(dsn) ==
    IF dsn.auth = "password" THEN QueryUnescape(dsn.Password) ELSE dsn.PrivateKey

\* what can go wrong outside the program once the credentials are in hand
Outcomes == {"ok", "dsn", "open", "ping"}

\* (getSnowflakeConnection calling parsePrivateKey whatever the auth type)
getSnowflakeConnection_ParseInEveryMode(cfg, files, padOK, outcome) ==
    LET fail(e, b, t, st) ==
            [db |-> NilDB, privateKey |-> NilKey, err |-> e, bufs |-> b, calls |-> t,
             steps |-> st]
        connect(dsn, key, b, t, st) ==
            IF outcome = "open"
            THEN fail(<<"failed to open snowflake connection">>, b, t,
                      Append(st, "sql.Open"))
            ELSE IF outcome = "ping"
            THEN fail(<<"failed to ping snowflake">>, b, t,
                      st \o <<"sql.Open", "db.PingContext">>)
            ELSE [db |-> [isNil |-> FALSE, dsn |-> dsn], privateKey |-> key,
                  err |-> NoErr, bufs |-> b, calls |-> t,
                  steps |-> st \o <<"sql.Open", "db.PingContext">>]
    IN  IF cfg.AuthType = AuthTypePassword
        THEN connect([auth |-> "password",
                      User |-> cfg.User, Password |-> QueryEscape(cfg.Password),
                      Account |-> cfg.Account, Database |-> cfg.Database,
                      Schema |-> cfg.Schema, Warehouse |-> cfg.Warehouse,
                      Role |-> cfg.Role],
                     NilKey, NoBufs, << >>, <<"parsePrivateKey">>)
        ELSE IF cfg.AuthType = AuthTypeKeyPair
        THEN LET r == parsePrivateKey(cfg, files, padOK)
             IN  IF r.err # NoErr
                 THEN fail(Wrap("failed to load private key", r.err), r.bufs, r.calls,
                           <<"parsePrivateKey">>)
                 ELSE IF outcome = "dsn"
                 THEN fail(<<"failed to build DSN for key-pair auth">>, r.bufs, r.calls,
                           <<"parsePrivateKey", "gosnowflake.DSN">>)
                 ELSE connect([auth |-> "jwt",
                               User |-> cfg.User, PrivateKey |-> r.key,
                               Account |-> cfg.Account, Database |-> cfg.Database,
                               Schema |-> cfg.Schema, Warehouse |-> cfg.Warehouse,
                               Role |-> cfg.Role],
                              r.key, r.bufs, r.calls,
                              <<"parsePrivateKey", "gosnowflake.DSN">>)
        ELSE fail(<<"unsupported auth type">>, NoBufs, << >>, << >>)

\* getSnowflakeConnection: (db, privateKey, nil) or (nil, nil, err).
\* outcome: the first of gosnowflake.DSN, sql.Open and db.PingContext to fail;
\* steps: the calls it made, in order
getSnowflakeConnection(cfg, files, padOK, outcome) ==
    LET fail(e, b, t, st) ==
            [db |-> NilDB, privateKey |-> NilKey, err |-> e, bufs |-> b, calls |-> t,
             steps |-> st]
        connect(dsn, key, b, t, st) ==
            IF outcome = "open"
            THEN fail(<<"failed to open snowflake connection">>, b, t,
                      Append(st, "sql.Open"))
            ELSE IF outcome = "ping"
            THEN fail(<<"failed to ping snowflake">>, b, t,
                      st \o <<"sql.Open", "db.PingContext">>)
            ELSE [db |-> [isNil |-> FALSE, dsn |-> dsn], privateKey |-> key,
                  err |-> NoErr, bufs |-> b, calls |-> t,
                  steps |-> st \o <<"sql.Open", "db.PingContext">>]
    IN  IF cfg.AuthType = AuthTypePassword
        THEN connect([auth |-> "password",
                      User |-> cfg.User, Password |-> QueryEscape(cfg.Password),
                      Account |-> cfg.Account, Database |-> cfg.Database,
                      Schema |-> cfg.Schema, Warehouse |-> cfg.Warehouse,
                      Role |-> cfg.Role],
                     NilKey, NoBufs, << >>, << >>)
        ELSE IF cfg.AuthType = AuthTypeKeyPair
        THEN LET r == parsePrivateKey(cfg, files, padOK)
             IN  IF r.err # NoErr
                 THEN fail(Wrap("failed to load private key", r.err), r.bufs, r.calls,
                           <<"parsePrivateKey">>)
                 ELSE IF outcome = "dsn"
                 THEN fail(<<"failed to build DSN for key-pair auth">>, r.bufs, r.calls,
                           <<"parsePrivateKey", "gosnowflake.DSN">>)
                 ELSE connect([auth |-> "jwt",
                               User |-> cfg.User, PrivateKey |-> r.key,
                               Account |-> cfg.Account, Database |-> cfg.Database,
                               Schema |-> cfg.Schema, Warehouse |-> cfg.Warehouse,
                               Role |-> cfg.Role],
                              r.key, r.bufs, r.calls,
                              <<"parsePrivateKey", "gosnowflake.DSN">>)
        ELSE fail(<<"unsupported auth type">>, NoBufs, << >>, << >>)

(***************************************************************************)
(* clearSensitiveData and clearPrivateKey                                  *)
(***************************************************************************)
\* (clearSensitiveData forgetting the passphrase)
clearSensitiveData_PasswordOnly(cfg) ==
    IF cfg.Password # EmptyStr THEN [cfg EXCEPT !.Password = EmptyStr] ELSE cfg

\* (clearSensitiveData leaving zero bytes in a field at the first call and
\* emptying it only when it finds them there)
clearSensitiveData_InTwoCalls(cfg) ==
    [cfg EXCEPT !.Password = IF AllZero(@) THEN EmptyStr ELSE Zeroed(@),
                !.PrivateKeyPassphrase = IF AllZero(@) THEN EmptyStr ELSE Zeroed(@)]

\* clearSensitiveData: each non-empty secret field is copied to a byte
\* slice, the slice is zeroed, and the field is set to ""
clearSensitiveData(cfg) ==
    LET c1 == IF cfg.Password # EmptyStr
              THEN [cfg EXCEPT !.Password = EmptyStr] ELSE cfg
    IN  IF c1.PrivateKeyPassphrase # EmptyStr
        THEN [c1 EXCEPT !.PrivateKeyPassphrase = EmptyStr] ELSE c1

\* a *big.Int that is nil (the numbers of a key are never negative)
NilInt == -1

\* if x != nil { x.SetInt64(0) }
zeroInt(x) == IF x # NilInt THEN 0 ELSE x

\* (clearPrivateKey zeroing the private exponent only)
clearPrivateKey_DOnly(key) ==
    IF key.isNil THEN key ELSE [key EXCEPT !.D = zeroInt(@)]

\* clearPrivateKey: D, the primes and the CRT values are set to 0 where
\* they are not nil, and the Primes and CRTValues slices are dropped
clearPrivateKey(key) ==
    IF key.isNil THEN key
    ELSE [key EXCEPT !.D = zeroInt(@), !.Primes = << >>, !.Dp = zeroInt(@),
                     !.Dq = zeroInt(@), !.Qinv = zeroInt(@), !.CRTValues = << >>]

\* The memory behind the secrets.  A Go string is immutable: the bytes a
\* Config field points to stay where loadConfig put them, and []byte(s)
\* allocates a new slice holding a copy of them.
NoMem ==
    [Password |-> EmptyStr, passwordBytes |-> EmptyStr,
     PrivateKeyPassphrase |-> EmptyStr, passphraseBytes |-> EmptyStr]

\* the string storage of the secrets loadConfig resolved
secretStrings(cfg) ==
    [NoMem EXCEPT !.Password = cfg.Password,
                  !.PrivateKeyPassphrase = cfg.PrivateKeyPassphrase]

\* what clearSensitiveData writes: passwordBytes := []byte(config.Password)
\* and passphraseBytes := []byte(config.PrivateKeyPassphrase) are filled
\* with zero bytes; the strings they were copied from are not written
clearedMemory(cfg, m) ==
    [m EXCEPT !.passwordBytes =
                  IF cfg.Password # EmptyStr THEN Zeroed(cfg.Password) ELSE @,
              !.passphraseBytes =
                  IF cfg.PrivateKeyPassphrase # EmptyStr
                  THEN Zeroed(cfg.PrivateKeyPassphrase) ELSE @]

(***************************************************************************)
(* The HTTP side: securityHeaders, limitRequestSize, getFailedQueries and  *)
(* the two handlers main registers                                         *)
(***************************************************************************)
\* most rows the warehouse returns to one query
MaxRows == 1

UserNames == {"ALICE", "BOB"}

\* the rows of QUERY_HISTORY a query may return: the user of each failed query
RowSets == UNION {[1..n -> UserNames] : n \in 0..MaxRows}

\* what a request meets: the query fails (db.QueryContext, rows.Scan or
\* rows.Err), or it returns rows; the client may stop reading meanwhile
QueryResults ==
    {[outcome |-> o, rows |-> << >>] : o \in {"query", "rows"}}
    \cup {[outcome |-> "scan", rows |-> r] : r \in RowSets \ {<< >>}}
    \cup {[outcome |-> "ok", rows |-> r] : r \in RowSets}

\* a []FailedQuery: the nil slice, or a slice of rows
NilSlice == [isNil |-> TRUE, items |-> << >>]

FailedQuery(i, user) == [QueryID |-> i, UserName |-> user]

\* getFailedQueries: (queries, nil) or (nil, err).  queries starts as the
\* nil slice and is appended to once per row
getFailedQueries(d, result) ==
    CASE result.outcome = "query" ->
            [queries |-> NilSlice, err |-> <<"failed to query failed queries">>]
      [] result.outcome = "scan" ->
            [queries |-> NilSlice, err |-> <<"failed to scan row">>]
      [] result.outcome = "rows" ->
            [queries |-> NilSlice, err |-> <<"error iterating rows">>]
      [] OTHER ->
            [queries |-> IF result.rows = << >> THEN NilSlice
                         ELSE [isNil |-> FALSE,
                               items |-> [i \in 1..Len(result.rows) |->
                                             FailedQuery(i, result.rows[i])]],
             err |-> NoErr]

\* http.ResponseWriter: the header map, and what has gone to the client.
\* The header map is sent with the first write; later changes are lost.
NoBody == [kind |-> "none"]

NewWriter ==
    [pattern |-> "", header |-> << >>, wroteHeader |-> FALSE, status |-> 0,
     sent |-> << >>, body |-> NoBody, log |-> NoErr]

\* w.Header().Set(name, value)
SetHeader(w, name, value) == [w EXCEPT !.header = (name :> value) @@ @]

\* w.WriteHeader(code)
WriteHeader(w, code) ==
    IF w.wroteHeader THEN w
    ELSE [w EXCEPT !.wroteHeader = TRUE, !.status = code, !.sent = w.header]

\* w.Write(body): the first write sends the header with status 200
Write(w, body) == [WriteHeader(w, 200) EXCEPT !.body = body]

\* log.Printf(msg, err) of a handler
LogPrintf(w, msg, e) == [w EXCEPT !.log = Wrap(msg, e)]

GenericError == "Internal server error - unable to fetch data"

\* http.Error(w, msg, code)
httpError(w, msg, code) ==
    LET w1 == SetHeader(w, "Content-Type", "text/plain; charset=utf-8")
        w2 == SetHeader(w1, "X-Content-Type-Options", "nosniff")
    IN  Write(WriteHeader(w2, code), [kind |-> "text", text |-> msg])

\* (securityHeaders forgetting the Permissions-Policy header)
securityHeaders_FiveHeaders(w) ==
    SetHeader(SetHeader(SetHeader(SetHeader(SetHeader(w,
        "Content-Security-Policy",
        "default-src 'self'; script-src 'unsafe-inline' 'self'; style-src 'unsafe-inline' 'self'; img-src 'self' data:; font-src 'self'; connect-src 'self'; frame-ancestors 'none'"),
        "X-Content-Type-Options", "nosniff"),
        "X-Frame-Options", "DENY"),
        "X-XSS-Protection", "1; mode=block"),
        "Referrer-Policy", "strict-origin-when-cross-origin")

\* securityHeaders(next), up to the call of next: the six headers are set
\* on the header map of the response
securityHeaders(w) ==
    SetHeader(SetHeader(SetHeader(SetHeader(SetHeader(SetHeader(w,
        "Content-Security-Policy",
        "default-src 'self'; script-src 'unsafe-inline' 'self'; style-src 'unsafe-inline' 'self'; img-src 'self' data:; font-src 'self'; connect-src 'self'; frame-ancestors 'none'"),
        "X-Content-Type-Options", "nosniff"),
        "X-Frame-Options", "DENY"),
        "X-XSS-Protection", "1; mode=block"),
        "Referrer-Policy", "strict-origin-when-cross-origin"),
        "Permissions-Policy", "geolocation=(), microphone=(), camera=()")

\* limitRequestSize(next), up to the call of next: the body of the request
\* is capped at 1 MB
limitRequestSize(r) == [r EXCEPT !.bodyLimit = 1048576]

\* the users of a slice of queries (the keys of uniqueUsers)
usersOf(queries) == {queries.items[i].UserName : i \in 1..Len(queries.items)}

\* (the handler of "/" as it was before Security Fix #6: the error text goes
\* to the client)
handleRoot_DetailedError(w, r) ==
    LET q == getFailedQueries(r.db, r.result)
    IN  IF q.err # NoErr
        THEN LogPrintf(httpError(w, q.err[1], 500), "Error fetching queries", q.err)
        ELSE Write(w, [kind |-> "html",
                       data |-> [Queries |-> q.queries,
                                 Count |-> Len(q.queries.items),
                                 UniqueUsers |-> Cardinality(usersOf(q.queries)),
                                 UserList |-> r.userList]])

\* the handler of "/": the page built from the queries, or the generic error.
\* r.userList is the order in which the map of users happens to be ranged
\* over; r.writeFails says whether the client stops reading.
handleRoot(w, r) ==
    LET q == getFailedQueries(r.db, r.result)
    IN  IF q.err # NoErr
        THEN LogPrintf(httpError(w, GenericError, 500), "Error fetching queries", q.err)
        ELSE LET data == [Queries |-> q.queries,
                          Count |-> Len(q.queries.items),
                          UniqueUsers |-> Cardinality(usersOf(q.queries)),
                          UserList |-> r.userList]
                 w1 == Write(w, [kind |-> "html", data |-> data])
             IN  IF r.writeFails
                 THEN LogPrintf(w1, "Error executing template", <<"write">>)
                 ELSE w1

\* encoding/json of a []FailedQuery: null for the nil slice, else an array
jsonEncode(queries) ==
    IF queries.isNil THEN [kind |-> "json", value |-> "null", items |-> << >>]
    ELSE [kind |-> "json", value |-> "array", items |-> queries.items]

\* the handler of "/api/queries": the queries as JSON, or the generic error
handleApiQueries(w, r) ==
    LET q == getFailedQueries(r.db, r.result)
    IN  IF q.err # NoErr
        THEN LogPrintf(httpError(w, GenericError, 500), "Error fetching queries", q.err)
        ELSE LET w1 == Write(SetHeader(w, "Content-Type", "application/json"),
                             jsonEncode(q.queries))
             IN  IF r.writeFails
                 THEN LogPrintf(w1, "Error encoding JSON", <<"write">>)
                 ELSE w1

\* the handlers as main wraps them, securityHeaders(limitRequestSize(...)):
\* the headers are set, the body is capped, then the handler runs
rootHandler(w, r) == handleRoot(securityHeaders(w), limitRequestSize(r))

apiHandler(w, r) == handleApiQueries(securityHeaders(w), limitRequestSize(r))

\* http.DefaultServeMux: "/api/queries" matches itself, "/" everything else
serveMux(registered, w, r) ==
    IF r.path = "/api/queries" /\ "/api/queries" \in registered
    THEN [apiHandler(w, r) EXCEPT !.pattern = "/api/queries"]
    ELSE IF "/" \in registered
    THEN [rootHandler(w, r) EXCEPT !.pattern = "/"]
    ELSE [httpError(w, "404 page not found", 404) EXCEPT !.pattern = ""]

(***************************************************************************)
(* main(): startup, then the two handlers                                  *)
(***************************************************************************)
EnvNames ==
    {"SNOWFLAKE_AUTH_TYPE", "SNOWFLAKE_ACCOUNT", "SNOWFLAKE_USER", "SNOWFLAKE_DATABASE",
     "SNOWFLAKE_SCHEMA", "SNOWFLAKE_WAREHOUSE", "SNOWFLAKE_ROLE", "SNOWFLAKE_PASSWORD",
     "SNOWFLAKE_PRIVATE_KEY_PATH", "SNOWFLAKE_PRIVATE_KEY_CONTENT",
     "SNOWFLAKE_PRIVATE_KEY_PASSPHRASE"}

\* an environment: auth type, account, user, the four optional identifiers
\* (all set or all unset), and the credential variables
MkEnv(authType, account, user, optional, password, keyPath, keyContent, passphrase) ==
    [n \in EnvNames |->
        CASE n = "SNOWFLAKE_AUTH_TYPE" -> authType
          [] n = "SNOWFLAKE_ACCOUNT" -> account
          [] n = "SNOWFLAKE_USER" -> user
          [] n = "SNOWFLAKE_PASSWORD" -> password
          [] n = "SNOWFLAKE_PRIVATE_KEY_PATH" -> keyPath
          [] n = "SNOWFLAKE_PRIVATE_KEY_CONTENT" -> keyContent
          [] n = "SNOWFLAKE_PRIVATE_KEY_PASSPHRASE" -> passphrase
          [] OTHER -> IF optional THEN StrSet(n) ELSE StrUnset]

MkFs(passwordFile, passphraseFile, keyFile) ==
    [p \in SecretPaths \cup {KeyPath} |->
        CASE p = secretPath("snowflake_password") -> passwordFile
          [] p = secretPath("snowflake_private_key_passphrase") -> passphraseFile
          [] OTHER -> keyFile]

Identifiers == {StrUnset, StrSet("acct")}

SampleContent == StdEncode(PemEncode("PRIVATE KEY", FALSE, DerPKCS8("rsa")))

\* A deployment provisions the credentials of the auth type it selects and
\* leaves the others unset (loadConfig never reads them).
PasswordWorld ==
    \E t \in {StrUnset, StrSet(""), StrSet("password")},
       a \in Identifiers, u \in Identifiers, o \in BOOLEAN,
       pw \in EnvVals, pwf \in SecretFiles :
        /\ env = MkEnv(t, a, u, o, pw, StrUnset, EnvUnset, EnvUnset)
        /\ fs = MkFs(pwf, FileMissing, FileMissing)

\* key pair, the key given as base64 content only
KeyContentWorld ==
    \E a \in Identifiers, u \in Identifiers, o \in BOOLEAN,
       kc \in {EnvUnset} \cup {[set |-> TRUE, val |-> k] : k \in KeyContents},
       pp \in EnvVals, ppf \in SecretFiles :
        /\ env = MkEnv(StrSet("keypair"), a, u, o, EnvUnset, StrUnset, kc, pp)
        /\ fs = MkFs(FileMissing, ppf, FileMissing)

\* key pair, the key given as a file, with or without content beside it
KeyFileWorld ==
    \E a \in Identifiers, u \in Identifiers, o \in BOOLEAN,
       kc \in {EnvUnset, [set |-> TRUE, val |-> SampleContent]},
       pp \in EnvVals, ppf \in SecretFiles, kf \in KeyFiles :
        /\ env = MkEnv(StrSet("keypair"), a, u, o, EnvUnset, StrSet(KeyPath), kc, pp)
        /\ fs = MkFs(FileMissing, ppf, kf)

\* an auth type the program does not know
OtherWorld ==
    \E t \in {"Password", "KEYPAIR", "jwt"},
       a \in Identifiers, u \in Identifiers, o \in BOOLEAN,
       pw \in {EnvUnset, [set |-> TRUE, val |-> <<"a">>]} :
        /\ env = MkEnv(StrSet(t), a, u, o, pw, StrUnset, EnvUnset, EnvUnset)
        /\ fs = MkFs(FileMissing, FileMissing, FileMissing)

SecIdle == [called |-> FALSE, secretName |-> "", envName |-> "", result |-> EmptyStr]

AuxIdle == [op |-> "none"]

NoWarehouse == [cred |-> << >>, rotated |-> FALSE]

NoConn == [isNil |-> TRUE, cred |-> << >>, afterRotation |-> FALSE]

\* nothing of main() has run
MainIdle ==
    /\ config = NilConfig
    /\ err = NoErr
    /\ db = NilDB
    /\ privateKey = NilKey
    /\ bufs = NoBufs
    /\ calls = << >>
    /\ mem = NoMem
    /\ done = << >>
    /\ handlers = {}
    /\ resp = NewWriter
    /\ warehouse = NoWarehouse
    /\ conn = NoConn

Init ==
    /\ (PasswordWorld \/ KeyContentWorld \/ KeyFileWorld \/ OtherWorld)
    /\ pc = "loadConfig"
    /\ MainIdle
    /\ sec = SecIdle
    /\ aux = AuxIdle

\* config, err := loadConfig(); log.Fatalf on error
LoadConfig ==
    /\ pc = "loadConfig"
    /\ done' = Append(done, "loadConfig")
    /\ LET r == loadConfig(env, fs)
       IN  IF r.err # NoErr
           THEN /\ err' = Wrap("Failed to load configuration", r.err)
                /\ pc' = "exit"
                /\ UNCHANGED <<config, mem>>
           ELSE /\ config' = r.config
                /\ mem' = secretStrings(r.config)
                /\ pc' = "getSnowflakeConnection"
                /\ UNCHANGED err
    /\ UNCHANGED <<env, fs, db, privateKey, bufs, calls, sec,
                   handlers, resp, warehouse, conn, aux>>

\* (main going on after getSnowflakeConnection returned an error)
GetSnowflakeConnection_ErrorIgnored ==
    /\ pc = "getSnowflakeConnection"
    /\ \E padOK \in BOOLEAN, outcome \in Outcomes :
         LET r == getSnowflakeConnection(config, fs, padOK, outcome)
         IN  /\ db' = r.db
             /\ privateKey' = r.privateKey
             /\ bufs' = r.bufs
             /\ calls' = r.calls
             /\ done' = Append(done, "getSnowflakeConnection") \o r.steps
             /\ pc' = "clearSensitiveData"
             /\ warehouse' = IF r.err # NoErr THEN warehouse
                             ELSE [cred |-> credential(r.db.dsn), rotated |-> FALSE]
             /\ UNCHANGED err
    /\ UNCHANGED <<env, fs, config, sec, mem, handlers, resp, conn, aux>>

\* db, privateKey, err := getSnowflakeConnection(config); log.Fatalf on error.
\* A ping that succeeds shows the credential the warehouse accepts.
GetSnowflakeConnection ==
    /\ pc = "getSnowflakeConnection"
    /\ \E padOK \in BOOLEAN, outcome \in Outcomes :
         LET r == getSnowflakeConnection(config, fs, padOK, outcome)
         IN  /\ db' = r.db
             /\ privateKey' = r.privateKey
             /\ bufs' = r.bufs
             /\ calls' = r.calls
             /\ done' = Append(done, "getSnowflakeConnection") \o r.steps
             /\ IF r.err # NoErr
                THEN /\ err' = Wrap("Failed to connect to Snowflake", r.err)
                     /\ pc' = "exit"
                     /\ UNCHANGED warehouse
                ELSE /\ pc' = "clearSensitiveData"
                     /\ warehouse' = [cred |-> credential(r.db.dsn), rotated |-> FALSE]
                     /\ UNCHANGED err
    /\ UNCHANGED <<env, fs, config, sec, mem, handlers, resp, conn, aux>>

\* (main going on without the call of clearSensitiveData)
ClearSensitiveData_Skipped ==
    /\ pc = "clearSensitiveData"
    /\ pc' = IF privateKey.isNil THEN "parseTemplate" ELSE "clearPrivateKey"
    /\ UNCHANGED <<env, fs, config, err, db, privateKey, bufs, calls, sec,
                   mem, done, handlers, resp, warehouse, conn, aux>>

\* clearSensitiveData(config); then the test privateKey != nil
ClearSensitiveData ==
    /\ pc = "clearSensitiveData"
    /\ config' = clearSensitiveData(config)
    /\ mem' = clearedMemory(config, mem)
    /\ done' = Append(done, "clearSensitiveData")
    /\ pc' = IF privateKey.isNil THEN "parseTemplate" ELSE "clearPrivateKey"
    /\ UNCHANGED <<env, fs, err, db, privateKey, bufs, calls, sec,
                   handlers, resp, warehouse, conn, aux>>

\* clearPrivateKey(privateKey)
ClearPrivateKey ==
    /\ pc = "clearPrivateKey"
    /\ privateKey' = clearPrivateKey(privateKey)
    /\ done' = Append(done, "clearPrivateKey")
    /\ pc' = "parseTemplate"
    /\ UNCHANGED <<env, fs, config, err, db, bufs, calls, sec,
                   mem, handlers, resp, warehouse, conn, aux>>

\* tmpl, err := template.New("dashboard").Parse(htmlTemplate): the template
\* is a constant of the program, and it parses
ParseTemplate ==
    /\ pc = "parseTemplate"
    /\ done' = Append(done, "template.Parse")
    /\ pc' = "handleFuncRoot"
    /\ UNCHANGED <<env, fs, config, err, db, privateKey, bufs, calls, sec,
                   mem, handlers, resp, warehouse, conn, aux>>

\* http.HandleFunc("/", ...)
HandleFuncRoot ==
    /\ pc = "handleFuncRoot"
    /\ handlers' = handlers \cup {"/"}
    /\ done' = Append(done, "http.HandleFunc")
    /\ pc' = "handleFuncApi"
    /\ UNCHANGED <<env, fs, config, err, db, privateKey, bufs, calls, sec,
                   mem, resp, warehouse, conn, aux>>

\* http.HandleFunc("/api/queries", ...)
HandleFuncApi ==
    /\ pc = "handleFuncApi"
    /\ handlers' = handlers \cup {"/api/queries"}
    /\ done' = Append(done, "http.HandleFunc")
    /\ pc' = "listen"
    /\ UNCHANGED <<env, fs, config, err, db, privateKey, bufs, calls, sec,
                   mem, resp, warehouse, conn, aux>>

\* server.ListenAndServe(): the port is bound and requests are served, or
\* log.Fatalf("Server failed to start")
ListenAndServe ==
    /\ pc = "listen"
    /\ done' = Append(done, "server.ListenAndServe")
    /\ \E bound \in BOOLEAN :
         IF bound
         THEN pc' = "serve" /\ UNCHANGED err
         ELSE pc' = "exit" /\ err' = <<"Server failed to start", "listen">>
    /\ UNCHANGED <<env, fs, config, db, privateKey, bufs, calls, sec,
                   mem, handlers, resp, warehouse, conn, aux>>

\* the paths requests are made for
Paths == {"/", "/api/queries", "/favicon.ico"}

\* the orders in which the elements of a set may be ranged over
Orders(S) ==
    {o \in [1..Cardinality(S) -> S] : \A i, j \in 1..Cardinality(S) : o[i] = o[j] => i = j}

\* the server handles a request.  Each request gets a ResponseWriter of its
\* own and the handlers share no variable, so requests are taken one by one.
ServeHTTP ==
    /\ pc = "serve"
    /\ resp = NewWriter
    /\ \E path \in Paths, result \in QueryResults, writeFails \in BOOLEAN :
         \E userList \in Orders({result.rows[i] : i \in 1..Len(result.rows)}) :
            resp' = serveMux(handlers, NewWriter,
                             [path |-> path, db |-> db, result |-> result,
                              writeFails |-> writeFails, userList |-> userList,
                              bodyLimit |-> 0])
    /\ UNCHANGED <<env, fs, pc, config, err, db, privateKey, bufs, calls, sec,
                   mem, done, handlers, warehouse, conn, aux>>

\* the response has gone to the client
Deliver ==
    /\ pc = "serve"
    /\ resp # NewWriter
    /\ resp' = NewWriter
    /\ UNCHANGED <<env, fs, pc, config, err, db, privateKey, bufs, calls, sec,
                   mem, done, handlers, warehouse, conn, aux>>

Next ==
    \/ LoadConfig
    \/ GetSnowflakeConnection
    \/ ClearSensitiveData
    \/ ClearPrivateKey
    \/ ParseTemplate
    \/ HandleFuncRoot
    \/ HandleFuncApi
    \/ ListenAndServe
    \/ ServeHTTP
    \/ Deliver

Spec == Init /\ [][Next]_vars

(***************************************************************************)
(* The connection pool of a process that serves, and the rotation of the   *)
(* password outside it                                                     *)
(***************************************************************************)
\* a process that started in password mode and serves: the state main
\* leaves behind when every step of startup succeeded
PoolInit ==
    /\ pc = "serve"
    /\ sec = SecIdle
    /\ aux = AuxIdle
    /\ \E pw \in EnvVals, pwf \in SecretFiles :
         LET e == MkEnv(StrSet("password"), StrSet("acct"), StrSet("acct"), FALSE,
                        pw, StrUnset, EnvUnset, EnvUnset)
             f == MkFs(pwf, FileMissing, FileMissing)
             l == loadConfig(e, f)
             g == getSnowflakeConnection(l.config, f, TRUE, "ok")
         IN  /\ l.err = NoErr
             /\ env = e
             /\ fs = f
             /\ config = clearSensitiveData(l.config)
             /\ err = NoErr
             /\ db = g.db
             /\ privateKey = g.privateKey
             /\ bufs = g.bufs
             /\ calls = g.calls
             /\ mem = clearedMemory(l.config, secretStrings(l.config))
             /\ done = <<"loadConfig", "getSnowflakeConnection">> \o g.steps
                         \o <<"clearSensitiveData", "template.Parse", "http.HandleFunc",
                              "http.HandleFunc", "server.ListenAndServe">>
             /\ handlers = {"/", "/api/queries"}
             /\ resp = NewWriter
             /\ warehouse = [cred |-> credential(g.db.dsn), rotated |-> FALSE]
             /\ conn = NoConn

\* the password an operator rotates to
NewPassword == <<"n", "e", "w">>

\* the password is rotated outside the program: the warehouse accepts the
\* new one only, and the secret file holds it
Rotate ==
    /\ pc = "serve"
    /\ db.dsn.auth = "password"
    /\ ~warehouse.rotated
    /\ warehouse' = [cred |-> NewPassword, rotated |-> TRUE]
    /\ fs' = [fs EXCEPT ![secretPath("snowflake_password")] = FileWith(NewPassword)]
    /\ UNCHANGED <<env, pc, config, err, db, privateKey, bufs, calls, sec,
                   mem, done, handlers, resp, conn, aux>>

\* the pool opens a connection: the first, or one replacing a connection
\* closed after ConnMaxLifetime or ConnMaxIdleTime.  The driver connects
\* with the descriptor sql.Open was given.
OpenConn ==
    /\ pc = "serve"
    /\ conn' = [isNil |-> FALSE, cred |-> credential(db.dsn),
                afterRotation |-> warehouse.rotated]
    /\ UNCHANGED <<env, fs, pc, config, err, db, privateKey, bufs, calls, sec,
                   mem, done, handlers, resp, warehouse, aux>>

PoolNext == Rotate \/ OpenConn

SpecPool == PoolInit /\ [][PoolNext]_vars

(***************************************************************************)
(* The dashboard page in the browser: the page the "/" handler renders     *)
(* from htmlTemplate, and its script.  aux holds the page.                 *)
(***************************************************************************)
\* most interval timers and most fetches a page is followed with
MaxTimers == 2

MaxFetches == 2

\* the handle the handlers of a serving process share
ServingDB == [isNil |-> FALSE, dsn |-> << >>]

GetRequest(path, result, userList) ==
    [path |-> path, db |-> ServingDB, result |-> result, writeFails |-> FALSE,
     userList |-> userList, bodyLimit |-> 0]

\* what GET / answers with
RootAnswers ==
    UNION {{rootHandler(NewWriter, GetRequest("/", result, userList)) :
               userList \in Orders({result.rows[i] : i \in 1..Len(result.rows)})} :
           result \in QueryResults}

\* what fetch('/api/queries') meets: an answer of the handler, or no answer
NetworkError == [NewWriter EXCEPT !.pattern = "network error"]

ApiAnswers ==
    {apiHandler(NewWriter, GetRequest("/api/queries", result, << >>)) :
        result \in QueryResults}
    \cup {NetworkError}

\* the value of a <select> none of whose options is selected
NoSelection == "(none)"

NoEvent == [name |-> "none", started |-> FALSE, ok |-> FALSE, filter |-> "", data |-> << >>]

\* htmlTemplate executed on PageData: with queries the page has the filter,
\* the refresh button and #queries-container holding one card per query;
\* without, it has the "No Failed Queries" block and none of the three
renderPage(data, hidden) ==
    LET items == data.Queries.items
        some  == Len(items) > 0
    IN  [op |-> "page",
         loaded |-> FALSE,
         hidden |-> hidden,
         hasControls |-> some,
         filterListener |-> FALSE,
         visibilityListener |-> FALSE,
         cards |-> [i \in 1..Len(items) |-> [user |-> items[i].UserName, hidden |-> FALSE]],
         placeholder |-> ~some,
         options |-> IF some THEN data.UserList ELSE << >>,
         selected |-> IF some THEN "" ELSE NoSelection,
         count |-> data.Count,
         users |-> data.UniqueUsers,
         refreshTimer |-> 0,
         timers |-> {},
         isRefreshing |-> FALSE,
         buttonDisabled |-> FALSE,
         fetches |-> << >>,
         event |-> NoEvent]

\* userFilter.value: the value of the selected option, "" when there is none
filterValue(p) == IF p.selected = NoSelection THEN "" ELSE p.selected

\* userFilter.value = v: the first option of that value becomes the selected
\* one; with no such option none is selected
setFilterValue(p, v) ==
    [p EXCEPT !.selected =
        IF v = "" \/ \E i \in 1..Len(p.options) : p.options[i] = v
        THEN v ELSE NoSelection]

visibleCards(p) == {i \in 1..Len(p.cards) : ~p.cards[i].hidden}

applyFilter(p, selectedUser) ==
    LET shown == [i \in 1..Len(p.cards) |->
                     selectedUser = "" \/ p.cards[i].user = selectedUser]
        cs    == [i \in 1..Len(p.cards) |-> [p.cards[i] EXCEPT !.hidden = ~shown[i]]]
        vis   == {i \in 1..Len(cs) : shown[i]}
    IN  [p EXCEPT !.cards = cs,
                  !.count = Cardinality(vis),
                  !.users = Cardinality({cs[i].user : i \in vis})]

\* setInterval: an identifier no active timer has
newTimer(active) == CHOOSE i \in 1..(MaxTimers + 1) :
                       i \notin active /\ \A j \in 1..(i - 1) : j \in active

startAutoRefresh(p) ==
    LET active == IF p.refreshTimer # 0 THEN p.timers \ {p.refreshTimer} ELSE p.timers
    IN  [p EXCEPT !.refreshTimer = newTimer(active),
                  !.timers = active \cup {newTimer(active)}]

stopAutoRefresh(p) ==
    IF p.refreshTimer # 0
    THEN [p EXCEPT !.timers = p.timers \ {p.refreshTimer}, !.refreshTimer = 0]
    ELSE p

\* (refreshData without the test of isRefreshing)
refreshData_NoGuard(p) ==
    [p EXCEPT !.isRefreshing = TRUE,
              !.buttonDisabled = p.hasControls,
              !.fetches = Append(p.fetches,
                                 [currentFilter |-> IF p.hasControls THEN filterValue(p)
                                                    ELSE ""])]

\* refreshData up to the call of fetch: nothing while a refresh is under
\* way; else the flag is set, the button disabled, the filter remembered
refreshData(p) ==
    IF p.isRefreshing THEN p
    ELSE [p EXCEPT !.isRefreshing = TRUE,
                   !.buttonDisabled = p.hasControls,
                   !.fetches = Append(p.fetches,
                                      [currentFilter |-> IF p.hasControls
                                                         THEN filterValue(p) ELSE ""])]

\* the array (or null) response.json() yields, and the outcome of a function
\* of the script: the page as it leaves it, and whether it threw
JsonOf(w) == [isNull |-> w.body.value = "null", items |-> w.body.items]

Completed(p) == [page |-> p, threw |-> FALSE]

Threw(p) == [page |-> p, threw |-> TRUE]

UserOrder == <<"ALICE", "BOB">>

\* Array.from(users).sort()
sortedUsers(S) ==
    LET In(u) == u \in S
    IN  SelectSeq(UserOrder, In)

userNames(q) == {q.items[i].UserName : i \in 1..Len(q.items)}

\* updateQueryCards: nothing without #queries-container; queries.length
\* throws on null; else the container holds the placeholder or one card a query
updateQueryCards(p, q) ==
    IF ~p.hasControls THEN Completed(p)
    ELSE IF q.isNull THEN Threw(p)
    ELSE IF Len(q.items) = 0
    THEN Completed([p EXCEPT !.cards = << >>, !.placeholder = TRUE])
    ELSE Completed([p EXCEPT !.placeholder = FALSE,
                             !.cards = [i \in 1..Len(q.items) |->
                                           [user |-> q.items[i].UserName,
                                            hidden |-> FALSE]]])

\* updateUserFilter: nothing without #user-filter; else the options are
\* rebuilt (the first one selected) and the value of before is set again
updateUserFilter(p, q) ==
    IF ~p.hasControls THEN Completed(p)
    ELSE IF q.isNull THEN Threw(p)
    ELSE Completed(setFilterValue([p EXCEPT !.options = sortedUsers(userNames(q)),
                                            !.selected = ""],
                                  filterValue(p)))

updateStatistics(p, q) ==
    IF q.isNull THEN Threw(p)
    ELSE Completed([p EXCEPT !.count = Len(q.items),
                             !.users = Cardinality(userNames(q))])

updateDashboard(p, q, currentFilter) ==
    LET r1 == updateQueryCards(p, q)
        r2 == updateUserFilter(r1.page, q)
        r3 == updateStatistics(r2.page, q)
    IN  IF r1.threw THEN r1
        ELSE IF r2.threw THEN r2
        ELSE IF r3.threw THEN r3
        ELSE IF currentFilter # ""
        THEN IF r3.page.hasControls
             THEN Completed(applyFilter(setFilterValue(r3.page, currentFilter),
                                        currentFilter))
             ELSE r3
        ELSE Completed(applyFilter(r3.page, ""))

\* the promise of fetch settles with answer w for the i-th fetch under way:
\* then, catch and finally of refreshData
fetchSettled(p, i, w) ==
    LET f    == p.fetches[i]
        rest == SubSeq(p.fetches, 1, i - 1) \o SubSeq(p.fetches, i + 1, Len(p.fetches))
        ok   == w.pattern # "network error" /\ w.status \in 200..299
        r    == IF ok THEN updateDashboard(p, JsonOf(w), f.currentFilter) ELSE Threw(p)
    IN  [r.page EXCEPT !.isRefreshing = FALSE,
                       !.buttonDisabled = FALSE,
                       !.fetches = rest,
                       !.event = [name |-> "settled", started |-> FALSE,
                                  ok |-> ~r.threw, filter |-> f.currentFilter,
                                  data |-> IF ok THEN w.body.items ELSE << >>]]

handleVisibilityChange(p) ==
    IF p.hidden THEN stopAutoRefresh(p)
    ELSE refreshData(startAutoRefresh(p))

\* the listener of DOMContentLoaded
onDOMContentLoaded(p) ==
    [startAutoRefresh([p EXCEPT !.filterListener = p.hasControls])
        EXCEPT !.visibilityListener = TRUE, !.loaded = TRUE]

\* the event just handled, and whether it started a fetch
After(p0, p1, name) ==
    [p1 EXCEPT !.event = [NoEvent EXCEPT !.name = name,
                                         !.started = Len(p1.fetches) > Len(p0.fetches)]]

\* the pages GET / delivers, to a tab in the foreground or in the background
Pages ==
    {renderPage(w.body.data, hidden) :
        w \in {a \in RootAnswers : a.status = 200}, hidden \in BOOLEAN}

PageInit ==
    /\ pc = "page"
    /\ MainIdle
    /\ sec = SecIdle
    /\ env = MkEnv(StrSet("password"), StrSet("acct"), StrSet("acct"), FALSE,
                   EnvUnset, StrUnset, EnvUnset, EnvUnset)
    /\ fs = MkFs(FileMissing, FileMissing, FileMissing)
    /\ aux \in Pages

\* the user loads the page anew
Navigate ==
    /\ aux' \in Pages
    /\ UNCHANGED <<mainVars, sec>>

DOMContentLoaded ==
    /\ ~aux.loaded
    /\ aux' = After(aux, onDOMContentLoaded(aux), "load")
    /\ UNCHANGED <<mainVars, sec>>

\* the tab goes to the background or comes back.  (DOMContentLoaded fires as
\* soon as the document is parsed: no other event reaches the page before.)
VisibilityChange ==
    /\ aux.loaded
    /\ Len(aux.fetches) < MaxFetches
    /\ Cardinality(aux.timers) < MaxTimers
    /\ LET p == [aux EXCEPT !.hidden = ~aux.hidden]
       IN  aux' = After(aux, IF aux.visibilityListener THEN handleVisibilityChange(p) ELSE p,
                        IF p.hidden THEN "hidden" ELSE "visible")
    /\ UNCHANGED <<mainVars, sec>>

\* an interval timer fires
TimerTick ==
    /\ aux.loaded
    /\ Len(aux.fetches) < MaxFetches
    /\ \E id \in aux.timers : aux' = After(aux, refreshData(aux), "tick")
    /\ UNCHANGED <<mainVars, sec>>

\* "Refresh Now"
ClickRefresh ==
    /\ aux.loaded
    /\ Len(aux.fetches) < MaxFetches
    /\ aux.hasControls
    /\ ~aux.buttonDisabled
    /\ aux' = After(aux, refreshData(aux), "click")
    /\ UNCHANGED <<mainVars, sec>>

\* the user picks an option of the filter
SelectFilter ==
    /\ aux.loaded
    /\ aux.hasControls
    /\ \E v \in {""} \cup {aux.options[i] : i \in 1..Len(aux.options)} :
         LET p == [aux EXCEPT !.selected = v]
         IN  aux' = After(aux, IF aux.filterListener THEN applyFilter(p, v) ELSE p, "select")
    /\ UNCHANGED <<mainVars, sec>>

FetchSettles ==
    /\ \E i \in 1..Len(aux.fetches), w \in ApiAnswers : aux' = fetchSettled(aux, i, w)
    /\ UNCHANGED <<mainVars, sec>>

PageNext ==
    \/ Navigate
    \/ DOMContentLoaded
    \/ VisibilityChange
    \/ TimerTick
    \/ ClickRefresh
    \/ SelectFilter
    \/ FetchSettles

SpecPage == PageInit /\ [][PageNext]_vars

(***************************************************************************)
(* getSecretOrEnv on its own: every file system and environment over the   *)
(* two secrets, every pair of arguments                                    *)
(***************************************************************************)
SecInit ==
    /\ pc = "getSecretOrEnv"
    /\ MainIdle
    /\ aux = AuxIdle
    /\ fs \in [SecretPaths -> SecretFiles]
    /\ env \in [SecretEnvNames -> EnvVals]
    /\ \E n \in SecretNames, e \in SecretEnvNames :
            sec = [called |-> FALSE, secretName |-> n, envName |-> e,
                   result |-> EmptyStr]

Resolve ==
    /\ pc = "getSecretOrEnv"
    /\ ~sec.called
    /\ sec' = [sec EXCEPT !.called = TRUE,
                          !.result = getSecretOrEnv(fs, env, sec.secretName, sec.envName)]
    /\ UNCHANGED <<mainVars, aux>>

SecNext == Resolve

SpecSecret == SecInit /\ [][SecNext]_vars

(***************************************************************************)
(* clearSensitiveData and clearPrivateKey on their own, called again and   *)
(* again on a Config and on a key in any state of release                  *)
(***************************************************************************)
\* most calls of one function on the same object
MaxCalls == 2

\* a Config holding the given password and passphrase
ConfigWith(password, passphrase) ==
    [isNil |-> FALSE, Account |-> "acct", User |-> "acct", Database |-> "",
     Schema |-> "", Warehouse |-> "", Role |-> "", AuthType |-> AuthTypeKeyPair,
     Password |-> password, PrivateKeyPath |-> KeyPath,
     PrivateKeyContent |-> EmptyStr, PrivateKeyPassphrase |-> passphrase]

\* keys: nil, whole, with numbers nil or zero, with Primes or CRTValues
\* released, with a third prime and its CRT value
KeysToClear ==
    {NilKey}
    \cup {[isNil |-> FALSE, N |-> 33, E |-> 3, D |-> d, Primes |-> p,
           Dp |-> c[1], Dq |-> c[2], Qinv |-> c[3], CRTValues |-> v] :
            d \in {NilInt, 0, 7},
            p \in {<< >>, <<0, 0>>, <<3, 11>>, <<3, NilInt>>},
            c \in {<<NilInt, NilInt, NilInt>>, <<0, 0, 0>>, <<1, 7, 2>>},
            v \in {<< >>, <<[Exp |-> 1, Coeff |-> 1, R |-> 3]>>,
                   <<[Exp |-> NilInt, Coeff |-> 0, R |-> NilInt]>>}}

ScrubInit ==
    /\ pc = "scrub"
    /\ MainIdle
    /\ sec = SecIdle
    /\ env = MkEnv(StrSet("keypair"), StrSet("acct"), StrSet("acct"), FALSE,
                   EnvUnset, StrSet(KeyPath), EnvUnset, EnvUnset)
    /\ fs = MkFs(FileMissing, FileMissing, FileMissing)
    /\ \E password \in Strs, passphrase \in Strs, key \in KeysToClear :
            aux = [op |-> "scrub",
                   config0 |-> ConfigWith(password, passphrase), key0 |-> key,
                   config |-> ConfigWith(password, passphrase), key |-> key,
                   config1 |-> NilConfig, key1 |-> NilKey,
                   configCalls |-> 0, keyCalls |-> 0]

\* clearSensitiveData(config), once more; config1 keeps what the first call left
CallClearSensitiveData ==
    /\ pc = "scrub"
    /\ aux.configCalls < MaxCalls
    /\ LET c == clearSensitiveData(aux.config)
       IN  aux' = [aux EXCEPT !.config = c,
                              !.config1 = IF aux.configCalls = 0 THEN c ELSE @,
                              !.configCalls = @ + 1]
    /\ UNCHANGED <<mainVars, sec>>

\* clearPrivateKey(key), once more; key1 keeps what the first call left
CallClearPrivateKey ==
    /\ pc = "scrub"
    /\ aux.keyCalls < MaxCalls
    /\ LET k == clearPrivateKey(aux.key)
       IN  aux' = [aux EXCEPT !.key = k,
                              !.key1 = IF aux.keyCalls = 0 THEN k ELSE @,
                              !.keyCalls = @ + 1]
    /\ UNCHANGED <<mainVars, sec>>

ScrubNext == CallClearSensitiveData \/ CallClearPrivateKey

SpecScrub == ScrubInit /\ [][ScrubNext]_vars

(***************************************************************************)
(* The text of the descriptor getSnowflakeConnection builds in password    *)
(* mode, for fields that hold the delimiters of the descriptor             *)
(***************************************************************************)
\* longest hostile field, in characters
MaxField == 2

\* a letter, and the characters that delimit the parts of the descriptor
DsnChars == {"a", ":", "@", "/", "?", "&", "="}

FieldStrs == UNION {[1..n -> DsnChars] : n \in 0..MaxField}

FieldNames == {"User", "Password", "Account", "Database", "Schema", "Warehouse", "Role"}

WarehouseKey == <<"w", "a", "r", "e", "h", "o", "u", "s", "e">>

RoleKey == <<"r", "o", "l", "e">>

\* fmt.Sprintf("%s:%s@%s/%s/%s?warehouse=%s&role=%s", ...): user, password,
\* warehouse and role go through url.QueryEscape, account, database and
\* schema are put in as they are
passwordDSN(cfg) ==
    QueryEscape(cfg.User) \o <<":">> \o QueryEscape(cfg.Password) \o <<"@">>
        \o cfg.Account \o <<"/">> \o cfg.Database \o <<"/">> \o cfg.Schema
        \o <<"?">> \o WarehouseKey \o <<"=">> \o QueryEscape(cfg.Warehouse)
        \o <<"&">> \o RoleKey \o <<"=">> \o QueryEscape(cfg.Role)

\* one field holds any string over DsnChars, the others a letter
DsnInit ==
    /\ pc = "dsn"
    /\ MainIdle
    /\ sec = SecIdle
    /\ env = MkEnv(StrSet("password"), StrSet("acct"), StrSet("acct"), FALSE,
                   EnvUnset, StrUnset, EnvUnset, EnvUnset)
    /\ fs = MkFs(FileMissing, FileMissing, FileMissing)
    /\ \E f \in FieldNames, v \in FieldStrs :
            aux = [op |-> "dsn",
                   fields |-> [n \in FieldNames |-> IF n = f THEN v ELSE <<"a">>],
                   built |-> FALSE, dsn |-> << >>]

\* the descriptor is built
BuildDSN ==
    /\ pc = "dsn"
    /\ ~aux.built
    /\ aux' = [aux EXCEPT !.built = TRUE, !.dsn = passwordDSN(aux.fields)]
    /\ UNCHANGED <<mainVars, sec>>

DsnNext == BuildDSN

SpecDSN == DsnInit /\ [][DsnNext]_vars

(***************************************************************************)
(* Startup run twice, in two worlds that differ only in the values of the  *)
(* secrets: what main passes to log.Fatalf in each                         *)
(***************************************************************************)
\* the fmt.Errorf calls an error went through, outermost first: the chain
\* of messages without the message of a library error wrapped by %w
site(e) ==
    IF e # NoErr /\ e[Len(e)] \in {CorruptInputError(n) : n \in 0..4}
    THEN SubSeq(e, 1, Len(e) - 1) ELSE e

\* main up to the scrub point: the error passed to log.Fatalf (NoErr if
\* none), and the step that failed: the return statement the error left by
startup(environ, files, padOK, outcome) ==
    LET l == loadConfig(environ, files)
    IN  IF l.err # NoErr
        THEN [err |-> Wrap("Failed to load configuration", l.err),
              step |-> <<"loadConfig">> \o site(l.err)]
        ELSE LET g == getSnowflakeConnection(l.config, files, padOK, outcome)
             IN  IF g.err # NoErr
                 THEN [err |-> Wrap("Failed to connect to Snowflake", g.err),
                       step |-> <<"getSnowflakeConnection">> \o site(g.err)]
                 ELSE [err |-> NoErr, step |-> << >>]

\* two values of a secret variable, or two files, alike in all but the
\* bytes of the secret: both set or both unset, both readable or both not
AlikeVars(v1, v2) == v1.set = v2.set

AlikeFiles(f1, f2) ==
    /\ f1.exists = f2.exists
    /\ f1.readable = f2.readable
    /\ f1.ioerr = f2.ioerr

\* the second world, and no run made yet
Twin(e2, f2) ==
    [op |-> "twin", env |-> e2, fs |-> f2, ran |-> FALSE,
     first |-> [err |-> NoErr, step |-> << >>],
     second |-> [err |-> NoErr, step |-> << >>]]

\* two worlds that differ in the password only
PasswordTwins ==
    \E pw1 \in EnvVals, pw2 \in EnvVals, pwf1 \in SecretFiles, pwf2 \in SecretFiles :
        /\ AlikeVars(pw1, pw2)
        /\ AlikeFiles(pwf1, pwf2)
        /\ env = MkEnv(StrSet("password"), StrSet("acct"), StrSet("acct"), FALSE,
                       pw1, StrUnset, EnvUnset, EnvUnset)
        /\ fs = MkFs(pwf1, FileMissing, FileMissing)
        /\ aux = Twin(MkEnv(StrSet("password"), StrSet("acct"), StrSet("acct"), FALSE,
                            pw2, StrUnset, EnvUnset, EnvUnset),
                      MkFs(pwf2, FileMissing, FileMissing))

\* two worlds that differ in the key given as content and in the passphrase
KeyContentTwins ==
    \E k1 \in KeyContents, k2 \in KeyContents, pp1 \in EnvVals, pp2 \in EnvVals :
        /\ AlikeVars(pp1, pp2)
        /\ env = MkEnv(StrSet("keypair"), StrSet("acct"), StrSet("acct"), FALSE,
                       EnvUnset, StrUnset, [set |-> TRUE, val |-> k1], pp1)
        /\ fs = MkFs(FileMissing, FileMissing, FileMissing)
        /\ aux = Twin(MkEnv(StrSet("keypair"), StrSet("acct"), StrSet("acct"), FALSE,
                            EnvUnset, StrUnset, [set |-> TRUE, val |-> k2], pp2),
                      MkFs(FileMissing, FileMissing, FileMissing))

\* two worlds that differ in the key file and in the passphrase
KeyFileTwins ==
    \E kf1 \in KeyFiles, kf2 \in KeyFiles, pp1 \in EnvVals, pp2 \in EnvVals :
        /\ AlikeFiles(kf1, kf2)
        /\ AlikeVars(pp1, pp2)
        /\ env = MkEnv(StrSet("keypair"), StrSet("acct"), StrSet("acct"), FALSE,
                       EnvUnset, StrSet(KeyPath), EnvUnset, pp1)
        /\ fs = MkFs(FileMissing, FileMissing, kf1)
        /\ aux = Twin(MkEnv(StrSet("keypair"), StrSet("acct"), StrSet("acct"), FALSE,
                            EnvUnset, StrSet(KeyPath), EnvUnset, pp2),
                      MkFs(FileMissing, FileMissing, kf2))

TwinInit ==
    /\ pc = "twin"
    /\ MainIdle
    /\ sec = SecIdle
    /\ (PasswordTwins \/ KeyContentTwins \/ KeyFileTwins)

\* both runs, meeting the same outcome at the warehouse
RunBoth ==
    /\ pc = "twin"
    /\ ~aux.ran
    /\ \E outcome \in Outcomes, pad1 \in BOOLEAN, pad2 \in BOOLEAN :
          aux' = [aux EXCEPT !.ran = TRUE,
                             !.first = startup(env, fs, pad1, outcome),
                             !.second = startup(aux.env, aux.fs, pad2, outcome)]
    /\ UNCHANGED <<mainVars, sec>>

TwinNext == RunBoth

SpecTwin == TwinInit /\ [][TwinNext]_vars

(***************************************************************************)
(* Properties of getSecretOrEnv (checked under SpecSecret)                 *)
(***************************************************************************)
\* r is d without its leading and trailing white space, said without TrimSpace
IsTrimOf(r, d) ==
    \E i \in 0..Len(d), j \in 0..Len(d) :
        /\ i + j <= Len(d)
        /\ r = SubSeq(d, i + 1, Len(d) - j)
        /\ \A k \in 1..i : IsSpace(d[k])
        /\ \A k \in (Len(d) - j + 1)..Len(d) : IsSpace(d[k])
        /\ r = EmptyStr \/ (~IsSpace(r[1]) /\ ~IsSpace(r[Len(r)]))

\* the secret file and the variable the call of the harness is about
SecFile == fs[secretPath(sec.secretName)]

SecVar == env[sec.envName]

CanRead(f) == f.exists /\ f.readable /\ ~f.ioerr

C2_FallsBackToEnv ==
    sec.called =>
        /\ sec.result \in Seq(Chars)
        /\ ~CanRead(SecFile) =>
              sec.result = (IF SecVar.set THEN SecVar.val ELSE EmptyStr)

\* a call that found no readable file and returned the variable's value,
\* blanks included
C2_Witness ==
    /\ sec.called
    /\ SecFile = FileUnreadable
    /\ SecVar.set /\ SecVar.val = <<" ", "a">>
    /\ sec.result = <<" ", "a">>

(***************************************************************************)
(* Properties of loadConfig (checked under Spec)                           *)
(***************************************************************************)
\* loadConfig has returned
Loaded == pc # "loadConfig"

\* main ended because loadConfig failed with an error of kind
LoadFailedWith(kind) ==
    /\ pc = "exit"
    /\ Len(err) = 2
    /\ err[1] = "Failed to load configuration"
    /\ err[2] \in kind

LoadFailed == pc = "exit" /\ err[1] = "Failed to load configuration"

\* what the environment says, read off without loadConfig
RawAuthType == GetenvStr(env["SNOWFLAKE_AUTH_TYPE"])

AccountAndUser ==
    /\ GetenvStr(env["SNOWFLAKE_ACCOUNT"]) # ""
    /\ GetenvStr(env["SNOWFLAKE_USER"]) # ""

PasswordMode == RawAuthType \in {"", "password"}

KeyPairMode == RawAuthType = "keypair"

\* a secret can be resolved to something: a readable file holding more than
\* white space, or else a variable set to a non-empty value
Resolvable(file, var) ==
    IF CanRead(file) THEN \E i \in 1..Len(file.data) : ~IsSpace(file.data[i])
    ELSE var.set /\ var.val # EmptyStr

PasswordResolvable ==
    Resolvable(fs[secretPath("snowflake_password")], env["SNOWFLAKE_PASSWORD"])

PassphraseResolvable ==
    Resolvable(fs[secretPath("snowflake_private_key_passphrase")],
               env["SNOWFLAKE_PRIVATE_KEY_PASSPHRASE"])

KeyPathSet == GetenvStr(env["SNOWFLAKE_PRIVATE_KEY_PATH"]) # ""

KeyContentSet == Getenv(env["SNOWFLAKE_PRIVATE_KEY_CONTENT"]) # EmptyStr

C4_AccountAndUserRequired ==
    Loaded =>
        /\ ~AccountAndUser => LoadFailedWith(MissingRequired)
        /\ ~config.isNil => (config.Account # "" /\ config.User # "")

\* key-pair mode with a key and a passphrase at hand, but no user
C4_Witness ==
    /\ KeyPairMode
    /\ KeyContentSet /\ PassphraseResolvable
    /\ GetenvStr(env["SNOWFLAKE_ACCOUNT"]) # ""
    /\ GetenvStr(env["SNOWFLAKE_USER"]) = ""
    /\ LoadFailedWith(MissingRequired)

C6_KeyLocatorRequired ==
    (Loaded /\ KeyPairMode /\ AccountAndUser) =>
        IF ~KeyPathSet /\ ~KeyContentSet
        THEN LoadFailedWith(MissingCredential)
        ELSE ~LoadFailed /\ ~config.isNil /\ config.AuthType = AuthTypeKeyPair

\* loadConfig has just succeeded with the content alone and no passphrase
C6_Witness ==
    /\ pc = "getSnowflakeConnection"
    /\ KeyPairMode
    /\ ~KeyPathSet /\ KeyContentSet
    /\ ~PassphraseResolvable
    /\ config.PrivateKeyPassphrase = EmptyStr

\* C7 as claimed: a Config returned in key-pair mode has exactly one of
\* PrivateKeyPath and PrivateKeyContent non-empty.
C7_Original ==
    (~config.isNil /\ config.AuthType = AuthTypeKeyPair) =>
        (config.PrivateKeyPath # "") # (config.PrivateKeyContent # EmptyStr)

\* C7, amended: a Config returned in key-pair mode has at least one of
\* PrivateKeyPath and PrivateKeyContent non-empty (never both empty; both may
\* be set).
C7_AtLeastOneLocator ==
    (~config.isNil /\ config.AuthType = AuthTypeKeyPair) =>
        (config.PrivateKeyPath # "" \/ config.PrivateKeyContent # EmptyStr)

\* a Config returned with the path and the content both set
C7_Witness ==
    /\ pc = "getSnowflakeConnection"
    /\ config.AuthType = AuthTypeKeyPair
    /\ config.PrivateKeyPath = KeyPath
    /\ config.PrivateKeyContent = SampleContent

(***************************************************************************)
(* Properties of parsePrivateKey (checked under Spec)                      *)
(***************************************************************************)
\* getSnowflakeConnection has just returned from a run in key-pair mode: the
\* Config still holds the passphrase parsePrivateKey was given
ParseReturned ==
    /\ \/ pc = "clearSensitiveData"
       \/ pc = "exit" /\ err[1] = "Failed to connect to Snowflake"
    /\ ~config.isNil
    /\ config.AuthType = AuthTypeKeyPair

ParseFailed ==
    pc = "exit" /\ Len(err) >= 2 /\ err[2] = "failed to load private key"

ParseFailedWith(kind) ==
    /\ pc = "exit"
    /\ err[1] = "Failed to connect to Snowflake"
    /\ Len(err) = 3
    /\ err[2] = "failed to load private key"
    /\ err[3] \in kind

\* the key the Config points to is the PEM text pem
SuppliedIs(pem) ==
    IF config.PrivateKeyPath # "" THEN fs[config.PrivateKeyPath] = FileWith(pem)
    ELSE config.PrivateKeyContent = StdEncode(pem)

LegacyEncryptedKey == PemEncode("RSA PRIVATE KEY", TRUE, LegacyEncrypt(DerPKCS1))

PKCS8EncryptedKey ==
    PemEncode("ENCRYPTED PRIVATE KEY", FALSE, PBES2Encrypt(DerPKCS8("rsa")))

DecryptCalled ==
    \E i \in 1..Len(calls) :
        calls[i] \in {"x509.DecryptPEMBlock", "pkcs8.ParsePKCS8PrivateKey"}

\* C8 as claimed: for an encrypted RSA key in either envelope, an empty
\* passphrase fails with PassphraseRequired before any decryption routine is
\* called, a wrong passphrase fails with DecryptionFailed, and the right
\* passphrase yields the RSA key.
C8_Original ==
    \A pem \in {LegacyEncryptedKey, PKCS8EncryptedKey} :
        (ParseReturned /\ SuppliedIs(pem)) =>
            IF config.PrivateKeyPassphrase = EmptyStr
            THEN ParseFailedWith(PassphraseRequired) /\ ~DecryptCalled
            ELSE IF config.PrivateKeyPassphrase = KeyPassphrase
            THEN ~ParseFailed /\ (pc = "clearSensitiveData" => privateKey = RsaKey)
            ELSE ParseFailedWith(DecryptionFailed)

\* C8, amended: as claimed, except that a wrong passphrase on a key in the
\* legacy DEK-Info envelope fails either with DecryptionFailed or, when the
\* wrongly decrypted bytes pass the padding check, with the parse error of
\* x509.ParsePKCS1PrivateKey; it never yields a key.
C8_PassphraseDecides ==
    \A pem \in {LegacyEncryptedKey, PKCS8EncryptedKey} :
        (ParseReturned /\ SuppliedIs(pem)) =>
            IF config.PrivateKeyPassphrase = EmptyStr
            THEN ParseFailedWith(PassphraseRequired) /\ ~DecryptCalled
            ELSE IF config.PrivateKeyPassphrase = KeyPassphrase
            THEN ~ParseFailed /\ (pc = "clearSensitiveData" => privateKey = RsaKey)
            ELSE IF pem = PKCS8EncryptedKey
            THEN ParseFailedWith(DecryptionFailed)
            ELSE ParseFailedWith(DecryptionFailed \cup {ErrPKCS1}) /\ privateKey.isNil

\* a legacy-encrypted key file, a wrong passphrase, and the parse error
\* instead of the decryption error
C8_Witness ==
    /\ ParseReturned
    /\ SuppliedIs(LegacyEncryptedKey)
    /\ config.PrivateKeyPassphrase = <<"a", "a">>
    /\ calls = <<"os.ReadFile", "pem.Decode", "x509.DecryptPEMBlock",
                 "x509.ParsePKCS8PrivateKey", "x509.ParsePKCS1PrivateKey">>
    /\ ParseFailedWith({ErrPKCS1})

\* C9 as claimed: however parsePrivateKey returns, every byte buffer it
\* obtained (the encoded bytes, the bytes of the PEM block, the decrypted
\* bytes) holds only zero bytes.
C9_BuffersZeroed ==
    pc \notin {"loadConfig", "getSnowflakeConnection"} =>
        /\ AllZero(bufs.pemBytes)
        /\ AllZero(bufs.blockBytes)
        /\ AllZero(bufs.decrypted)

(***************************************************************************)
(* Properties of clearSensitiveData (checked under Spec)                   *)
(***************************************************************************)
\* C10: once clearSensitiveData has returned, config.Password and
\* config.PrivateKeyPassphrase are both the empty string, whatever they held.
C10_SecretFieldsEmpty ==
    pc \in {"clearPrivateKey", "parseTemplate"} =>
        /\ config.Password = EmptyStr
        /\ config.PrivateKeyPassphrase = EmptyStr

\* cleared after a connection made with a password of two characters
C10_Witness ==
    /\ pc = "parseTemplate"
    /\ config.AuthType = AuthTypePassword
    /\ db.dsn.Password = <<"a", "+">>
    /\ config.Password = EmptyStr

(***************************************************************************)
(* Properties of the memory behind the secrets (checked under Spec)        *)
(***************************************************************************)
\* clearSensitiveData has run
Scrubbed == \E i \in 1..Len(done) : done[i] = "clearSensitiveData"

\* C11 as claimed: once the scrub point has passed, nothing in the process
\* holds a non-zero byte of the password or of the passphrase: not the
\* storage of the Config fields, not the copies made of them, not the
\* descriptor the database handle keeps.
C11_NoSecretBytesRemain ==
    Scrubbed =>
        /\ AllZero(mem.Password)
        /\ AllZero(mem.passwordBytes)
        /\ AllZero(mem.PrivateKeyPassphrase)
        /\ AllZero(mem.passphraseBytes)
        /\ (db.dsn.auth = "password" => AllZero(db.dsn.Password))

(***************************************************************************)
(* Properties of the order of startup (checked under Spec)                 *)
(***************************************************************************)
\* how often a step was attempted
Times(step) == Cardinality({i \in 1..Len(done) : done[i] = step})

\* every attempt of step a came before every attempt of step b
Before(a, b) == \A i, j \in 1..Len(done) : done[i] = a /\ done[j] = b => i < j

\* a handler is registered, the server listens, or a request is in hand
ServingBegun == handlers # {} \/ pc = "serve" \/ resp # NewWriter

\* C12: clearSensitiveData runs at most once, and once a handler is
\* registered or a request is handled it has run exactly once, after the
\* ping of getSnowflakeConnection succeeded and before the first
\* http.HandleFunc and before ListenAndServe; a request is never handled
\* while config.Password or config.PrivateKeyPassphrase is non-empty.
C12_ScrubbedOnceBeforeServing ==
    /\ Times("clearSensitiveData") <= 1
    /\ ServingBegun =>
          /\ Times("clearSensitiveData") = 1
          /\ Times("db.PingContext") = 1
          /\ ~db.isNil
          /\ Before("db.PingContext", "clearSensitiveData")
          /\ Before("clearSensitiveData", "http.HandleFunc")
          /\ Before("clearSensitiveData", "server.ListenAndServe")
    /\ resp # NewWriter =>
          /\ config.Password = EmptyStr
          /\ config.PrivateKeyPassphrase = EmptyStr

\* a request answered by a process that connected with the password "a"
C12_Witness ==
    /\ pc = "serve"
    /\ resp.status = 200
    /\ db.dsn.auth = "password"
    /\ mem.Password = <<"a">>
    /\ Times("clearSensitiveData") = 1
    /\ config.Password = EmptyStr

\* the numbers of a key that give the private key away are zero or released
KeyScrubbed(k) ==
    /\ k.D = 0
    /\ k.Primes = << >>
    /\ k.Dp = 0 /\ k.Dq = 0 /\ k.Qinv = 0
    /\ k.CRTValues = << >>

\* the scrub point is behind: clearSensitiveData and the test of privateKey
\* that follows it have run, and clearPrivateKey too if the test called it
PastScrubPoint == Scrubbed /\ pc # "clearPrivateKey"

\* C13: clearPrivateKey runs at most once and never in password mode; when
\* it runs it is the step right after clearSensitiveData; past the scrub
\* point it has run exactly when the auth type is keypair, and then the
\* key main holds has D, Primes and the CRT values zero or released, so
\* that serving never starts with any of them set.
C13_KeyScrubbedIffKeyPair ==
    /\ Times("clearPrivateKey") <= 1
    /\ (~config.isNil /\ config.AuthType = AuthTypePassword) =>
            Times("clearPrivateKey") = 0
    /\ \A i \in 1..Len(done) :
            done[i] = "clearPrivateKey" => i > 1 /\ done[i - 1] = "clearSensitiveData"
    /\ PastScrubPoint =>
            /\ Times("clearPrivateKey") = 1 <=> config.AuthType = AuthTypeKeyPair
            /\ config.AuthType = AuthTypeKeyPair =>
                    ~privateKey.isNil /\ KeyScrubbed(privateKey)

\* serving after a connection made with a key pair
C13_Witness ==
    /\ pc = "serve"
    /\ config.AuthType = AuthTypeKeyPair
    /\ db.dsn.auth = "jwt"
    /\ Times("clearPrivateKey") = 1
    /\ privateKey.N = 33
    /\ privateKey.D = 0

(***************************************************************************)
(* Properties of repeated scrubbing (checked under SpecScrub)              *)
(***************************************************************************)
\* C14: a second (and any later) call of clearSensitiveData leaves the
\* Config as the first call left it, and a later call of clearPrivateKey
\* leaves the key as the first call left it; this for every Config, the nil
\* key, and keys with numbers, Primes or CRTValues already zero or released.
C14_ScrubbingIdempotent ==
    aux.op = "scrub" =>
        /\ aux.configCalls >= 1 => aux.config = aux.config1
        /\ aux.keyCalls >= 1 => aux.key = aux.key1

\* both functions called twice on a Config with a password and a whole key
C14_Witness ==
    /\ aux.op = "scrub"
    /\ aux.configCalls = 2
    /\ aux.keyCalls = 2
    /\ aux.config0.Password = <<"a">>
    /\ aux.key0 = RsaKey
    /\ aux.key.D = 0

\* the steps of startup that can fail, and the two that scrub
StartupSteps ==
    {"loadConfig", "getSnowflakeConnection", "parsePrivateKey", "gosnowflake.DSN",
     "sql.Open", "db.PingContext", "clearSensitiveData", "clearPrivateKey"}

\* C15: no step of startup is attempted twice; the process serves only
\* with loadConfig, the parse of the key (in keypair mode), sql.Open and the
\* ping each done once and successful and both secret fields scrubbed; and
\* a run that met an error has exited and has served no request.
C15_AllOrNothing ==
    /\ \A st \in StartupSteps : Times(st) <= 1
    /\ pc = "serve" =>
          /\ err = NoErr
          /\ Times("loadConfig") = 1 /\ ~config.isNil
          /\ Times("sql.Open") = 1 /\ Times("db.PingContext") = 1 /\ ~db.isNil
          /\ config.AuthType = AuthTypeKeyPair =>
                Times("parsePrivateKey") = 1 /\ ~privateKey.isNil
          /\ Scrubbed
          /\ config.Password = EmptyStr /\ config.PrivateKeyPassphrase = EmptyStr
    /\ err # NoErr <=> pc = "exit"
    /\ pc = "exit" => resp = NewWriter

\* a key pair whose key parsed but whose ping failed: the process has exited
C15_Witness ==
    /\ pc = "exit"
    /\ ~config.isNil
    /\ config.AuthType = AuthTypeKeyPair
    /\ Times("parsePrivateKey") = 1
    /\ Times("db.PingContext") = 1
    /\ err = <<"Failed to connect to Snowflake", "failed to ping snowflake">>
    /\ handlers = {}

(***************************************************************************)
(* Properties of the connection pool (checked under SpecPool)              *)
(***************************************************************************)
\* C16 as claimed: a connection the pool opens after the credentials were
\* rotated authenticates with the credential the warehouse accepts now,
\* not with the one read at startup.
C16_RotationPickedUp ==
    (~conn.isNil /\ conn.afterRotation) => conn.cred = warehouse.cred

(***************************************************************************)
(* Properties of the descriptor text (checked under SpecDSN)               *)
(***************************************************************************)
\* the position of the first c in s, 0 if there is none
RECURSIVE IndexOf(_, _)
IndexOf(s, c) ==
    IF s = << >> THEN 0
    ELSE IF Head(s) = c THEN 1
    ELSE LET i == IndexOf(Tail(s), c) IN IF i = 0 THEN 0 ELSE i + 1

\* s cut at its first c: what is before it and what is after it
Cut(s, c) ==
    LET i == IndexOf(s, c)
    IN  IF i = 0 THEN [head |-> s, tail |-> << >>]
        ELSE [head |-> SubSeq(s, 1, i - 1), tail |-> SubSeq(s, i + 1, Len(s))]

\* the value of the first parameter named key in a query string
RECURSIVE Param(_, _)
Param(query, key) ==
    IF query = << >> THEN << >>
    ELSE LET p  == Cut(query, "&")
             kv == Cut(p.head, "=")
         IN  IF kv.head = key THEN kv.tail ELSE Param(p.tail, key)

\* a descriptor split on its delimiters, in the order they are written:
\* user ":" password "@" account "/" database "/" schema "?" parameters
splitDSN(dsn) ==
    LET u == Cut(dsn, ":")
        p == Cut(u.tail, "@")
        a == Cut(p.tail, "/")
        d == Cut(a.tail, "/")
        c == Cut(d.tail, "?")
    IN  [n \in FieldNames |->
            CASE n = "User" -> QueryUnescape(u.head)
              [] n = "Password" -> QueryUnescape(p.head)
              [] n = "Account" -> a.head
              [] n = "Database" -> d.head
              [] n = "Schema" -> c.head
              [] n = "Warehouse" -> QueryUnescape(Param(c.tail, WarehouseKey))
              [] OTHER -> QueryUnescape(Param(c.tail, RoleKey))]

\* C17 as claimed: whatever a field holds, splitting the descriptor on its
\* delimiters gives back the seven fields it was built from.
C17_FieldsRecoverable ==
    (aux.op = "dsn" /\ aux.built) => splitDSN(aux.dsn) = aux.fields

(***************************************************************************)
(* Properties of the startup log line (checked under SpecTwin)             *)
(***************************************************************************)
\* C18 as claimed: two runs that differ only in the bytes of the password,
\* the passphrase or the private key and that fail at the same step (the
\* error leaves by the same return statement) pass the same message to
\* log.Fatalf.
C18_LogLineIndependentOfSecrets ==
    ( /\ aux.op = "twin" /\ aux.ran
      /\ aux.first.err # NoErr /\ aux.second.err # NoErr
      /\ aux.first.step = aux.second.step )
        => aux.first.err = aux.second.err

(***************************************************************************)
(* Properties of the handlers (checked under Spec)                         *)
(***************************************************************************)
\* the response in hand is the answer of "/api/queries" to a query that
\* succeeded
ApiAnswered == resp.pattern = "/api/queries" /\ resp.status = 200

\* C19 as claimed: whenever the query succeeds, the body of the response
\* of /api/queries is a JSON array, the empty array when no row came back,
\* so that the client can read its length.
C19_AlwaysAnArray ==
    ApiAnswered => resp.body.kind = "json" /\ resp.body.value = "array"

\* the headers securityHeaders promises
SecurityHeaderNames ==
    {"Content-Security-Policy", "X-Content-Type-Options", "X-Frame-Options",
     "X-XSS-Protection", "Referrer-Policy", "Permissions-Policy"}

\* C20: every response the two handlers produce, the page, the JSON and
\* the error alike, went out with all six security headers: they were in
\* the header map when the first byte was written.
C20_SecurityHeadersOnEveryResponse ==
    resp # NewWriter =>
        /\ resp.wroteHeader
        /\ SecurityHeaderNames \subseteq DOMAIN resp.sent
        /\ resp.sent["X-Frame-Options"] = "DENY"
        /\ resp.sent["X-Content-Type-Options"] = "nosniff"

\* the error response of /api/queries
C20_Witness ==
    /\ resp.pattern = "/api/queries"
    /\ resp.status = 500
    /\ resp.body = [kind |-> "text", text |-> GenericError]
    /\ Cardinality(DOMAIN resp.sent) = 7


(***************************************************************************)
(* Error responses of the two handlers (checked under Spec)                *)
(***************************************************************************)
\* the request met a failing getFailedQueries: the handler logged it
FetchFailed ==
    /\ resp.log # NoErr
    /\ resp.log[1] = "Error fetching queries"

\* C21: when getFailedQueries fails, "/" and "/api/queries" both answer with
\* status 500 and the fixed text "Internal server error - unable to fetch
\* data", whichever call of getFailedQueries failed; the error itself is
\* in the server log and nowhere in what the client receives.
C21_GenericErrorBody ==
    /\ FetchFailed =>
          /\ resp.pattern \in {"/", "/api/queries"}
          /\ resp.status = 500
          /\ resp.body = [kind |-> "text", text |-> GenericError]
          /\ Len(resp.log) = 2
          /\ resp.log[2] \in {"failed to query failed queries",
                              "failed to scan row", "error iterating rows"}
    /\ resp.status = 500 => FetchFailed

C21_Witness ==
    /\ resp.pattern = "/"
    /\ resp.status = 500
    /\ resp.log = <<"Error fetching queries", "failed to scan row">>
    /\ resp.body = [kind |-> "text", text |-> GenericError]

(***************************************************************************)
(* The order of the checks of loadConfig (checked under Spec)              *)
(***************************************************************************)
RecognizedAuthType == RawAuthType \in {"", "password", "keypair"}

\* the secrets loadConfig resolved through getSecretOrEnv on this environment
SecretsResolved == loadConfig(env, fs).resolved

\* loadConfig has just returned: main is about to connect, or has exited on
\* the error
JustLoaded == pc = "getSnowflakeConnection" \/ LoadFailed

Called(routine) == \E i \in 1..Len(calls) : calls[i] = routine

\* the last library routines parsePrivateKey invoked
LastCalls(n) ==
    IF Len(calls) < n THEN << >> ELSE SubSeq(calls, Len(calls) - n + 1, Len(calls))

PlainPKCS8(alg) == PemEncode("PRIVATE KEY", FALSE, DerPKCS8(alg))

PlainPKCS1 == PemEncode("RSA PRIVATE KEY", FALSE, DerPKCS1)

PlainSEC1 == PemEncode("EC PRIVATE KEY", FALSE, DerSEC1)

EncryptedPKCS8(alg) == PemEncode("ENCRYPTED PRIVATE KEY", FALSE, PBES2Encrypt(DerPKCS8(alg)))

ParsedRsaKey == ~ParseFailed /\ (pc = "clearSensitiveData" => privateKey = RsaKey)

\* PKCS#1 was tried only after PKCS#8, and PKCS#8 was the last try when it
\* succeeded
FallbackOrder ==
    /\ Called("x509.ParsePKCS1PrivateKey") =>
          LastCalls(2) = <<"x509.ParsePKCS8PrivateKey", "x509.ParsePKCS1PrivateKey">>
    /\ (SuppliedIs(PlainPKCS8("rsa")) \/ SuppliedIs(PlainPKCS8("ec"))) =>
          (LastCalls(1) = <<"x509.ParsePKCS8PrivateKey">>
             /\ ~Called("x509.ParsePKCS1PrivateKey"))
    /\ SuppliedIs(PlainPKCS1) =>
          (LastCalls(2) = <<"x509.ParsePKCS8PrivateKey", "x509.ParsePKCS1PrivateKey">>
             /\ ParsedRsaKey)
    /\ SuppliedIs(PlainPKCS8("rsa")) => ParsedRsaKey

\* a key in the "ENCRYPTED PRIVATE KEY" envelope goes through
\* pkcs8.ParsePKCS8PrivateKey alone
ModernParsedDirectly ==
    \A alg \in {"rsa", "ec"} :
        (SuppliedIs(EncryptedPKCS8(alg)) /\ config.PrivateKeyPassphrase = KeyPassphrase) =>
            /\ LastCalls(1) = <<"pkcs8.ParsePKCS8PrivateKey">>
            /\ ~Called("x509.ParsePKCS8PrivateKey")
            /\ ~Called("x509.ParsePKCS1PrivateKey")
            /\ IF alg = "rsa" THEN ParsedRsaKey
               ELSE ParseFailedWith(UnsupportedKeyType)

\* C25 as claimed: PKCS#8 is tried first and PKCS#1 only when it fails; every
\* valid plaintext private key that is not RSA ends in UnsupportedKeyType;
\* a key in the modern encrypted envelope is parsed without the fallback.
C25_Original ==
    ParseReturned =>
        /\ FallbackOrder
        /\ ModernParsedDirectly
        /\ \A pem \in {PlainPKCS8("ec"), PlainSEC1} :
              SuppliedIs(pem) => (ParseFailedWith(UnsupportedKeyType) /\ privateKey.isNil)

\* C25, amended: as claimed, except that UnsupportedKeyType is the result for
\* a non-RSA key in a PKCS#8 container; a non-RSA key in another container
\* (SEC 1, "EC PRIVATE KEY") fails both parses and ends in the error of
\* x509.ParsePKCS1PrivateKey, never in a key.
C25_PKCS8ThenPKCS1 ==
    ParseReturned =>
        /\ FallbackOrder
        /\ ModernParsedDirectly
        /\ SuppliedIs(PlainPKCS8("ec")) =>
              (ParseFailedWith(UnsupportedKeyType) /\ privateKey.isNil)
        /\ SuppliedIs(PlainSEC1) =>
              /\ ParseFailedWith({ErrPKCS1})
              /\ privateKey.isNil
              /\ LastCalls(2) = <<"x509.ParsePKCS8PrivateKey", "x509.ParsePKCS1PrivateKey">>

\* an EC key in the SEC 1 container: both parses fail
C25_Witness ==
    /\ ParseReturned
    /\ SuppliedIs(PlainSEC1)
    /\ calls = <<"base64.DecodeString", "pem.Decode",
                 "x509.ParsePKCS8PrivateKey", "x509.ParsePKCS1PrivateKey">>
    /\ ParseFailedWith({ErrPKCS1})

(***************************************************************************)
(* Where parsePrivateKey takes the key from (checked under Spec)           *)
(***************************************************************************)
KeyFileReadable == CanRead(fs[config.PrivateKeyPath])

\* C26: parsePrivateKey reads the file at PrivateKeyPath whenever the path is
\* non-empty and decodes the base64 PrivateKeyContent only when the path is
\* empty; with both set the content is never decoded, and a file that cannot
\* be read ends in the Unreadable error with no use of the content.
C26_PathBeforeContent ==
    ParseReturned =>
        IF config.PrivateKeyPath # ""
        THEN /\ calls[1] = "os.ReadFile"
             /\ ~Called("base64.DecodeString")
             /\ ~KeyFileReadable =>
                   (ParseFailedWith({ErrReadKeyFile}) /\ calls = <<"os.ReadFile">>
                      /\ privateKey.isNil)
             /\ KeyFileReadable => ~ParseFailedWith({ErrReadKeyFile})
        ELSE /\ config.PrivateKeyContent # EmptyStr
             /\ calls[1] = "base64.DecodeString"
             /\ ~Called("os.ReadFile")

\* path and content both set, the file missing, the content a good key
C26_Witness ==
    /\ ParseReturned
    /\ config.PrivateKeyPath = KeyPath
    /\ config.PrivateKeyContent = SampleContent
    /\ fs[KeyPath] = FileMissing
    /\ calls = <<"os.ReadFile">>
    /\ ParseFailedWith({ErrReadKeyFile})

(***************************************************************************)
(* The phases of startup (checked under Spec)                              *)
(***************************************************************************)
IsPrefix(s, t) == Len(s) <= Len(t) /\ s = SubSeq(t, 1, Len(s))

\* the steps of a run in which nothing fails, by auth type
PasswordRun ==
    <<"loadConfig", "getSnowflakeConnection", "sql.Open", "db.PingContext",
      "clearSensitiveData",
      "template.Parse", "http.HandleFunc", "http.HandleFunc", "server.ListenAndServe">>

KeyPairRun ==
    <<"loadConfig", "getSnowflakeConnection", "parsePrivateKey", "gosnowflake.DSN",
      "sql.Open", "db.PingContext", "clearSensitiveData", "clearPrivateKey",
      "template.Parse", "http.HandleFunc", "http.HandleFunc", "server.ListenAndServe">>

\* the steps that read config.Password, config.PrivateKeyPassphrase or the
\* private key
SecretReaders ==
    {"getSnowflakeConnection", "parsePrivateKey", "gosnowflake.DSN",
     "clearSensitiveData", "clearPrivateKey"}

\* the phase a run is in
Unconfigured == config.isNil

ConfigLoaded == ~config.isNil /\ db.isNil

Connected == ~db.isNil /\ ~Scrubbed

\* C27: a run goes through loadConfig, the parse of the key (key-pair mode
\* only), the connection and the scrub in that order, none skipped and none
\* repeated; parsePrivateKey is invoked only when AuthType is keypair; and no
\* step after the scrub reads the secret fields of the Config or the key.
C27_PhasesInOrder ==
    /\ IsPrefix(done, IF KeyPairMode THEN KeyPairRun ELSE PasswordRun)
    /\ pc = "loadConfig" => (done = << >> /\ Unconfigured)
    /\ pc = "getSnowflakeConnection" => (done = <<"loadConfig">> /\ ConfigLoaded)
    /\ pc = "clearSensitiveData" =>
          /\ Connected
          /\ done[Len(done)] = "db.PingContext"
          /\ (config.AuthType = AuthTypeKeyPair) = ~privateKey.isNil
    /\ pc = "exit" => (Unconfigured \/ ConfigLoaded \/ PastScrubPoint)
    /\ Times("parsePrivateKey") > 0 =>
          (~Unconfigured /\ config.AuthType = AuthTypeKeyPair)
    /\ Scrubbed =>
          /\ ~db.isNil
          /\ config.Password = EmptyStr /\ config.PrivateKeyPassphrase = EmptyStr
    /\ PastScrubPoint =>
          /\ config.AuthType = AuthTypeKeyPair => KeyScrubbed(privateKey)
          /\ \A i, j \in 1..Len(done) :
                (i < j /\ done[i] = (IF config.AuthType = AuthTypeKeyPair
                                     THEN "clearPrivateKey" ELSE "clearSensitiveData"))
                    => done[j] \notin SecretReaders

\* a key-pair run that serves: every phase passed, the key parsed on the way
C27_Witness ==
    /\ pc = "serve"
    /\ done = KeyPairRun
    /\ config.AuthType = AuthTypeKeyPair
    /\ KeyScrubbed(privateKey)

(***************************************************************************)
(* A secret file that holds nothing (checked under Spec)                   *)
(***************************************************************************)
\* the file exists and can be read, and is empty or all white space
BlankFile(f) == CanRead(f) /\ \A i \in 1..Len(f.data) : IsSpace(f.data[i])

PasswordFile == fs[secretPath("snowflake_password")]

PassphraseFile == fs[secretPath("snowflake_private_key_passphrase")]

VarSet(name) == env[name].set /\ env[name].val # EmptyStr

\* C29: a secret file that exists and is empty or all white space makes
\* getSecretOrEnv return the empty string, the environment variable not
\* consulted; so in password mode loadConfig fails with MissingCredential
\* even when SNOWFLAKE_PASSWORD is set, and in key-pair mode the Config
\* carries an empty passphrase even when the variable holds one.
C29_BlankFileNoFallback ==
    /\ (Loaded /\ PasswordMode /\ AccountAndUser /\ BlankFile(PasswordFile)) =>
          /\ getSecretOrEnv(fs, env, "snowflake_password", "SNOWFLAKE_PASSWORD") = EmptyStr
          /\ LoadFailedWith({ErrMissingPassword})
    /\ (pc = "getSnowflakeConnection" /\ KeyPairMode /\ BlankFile(PassphraseFile)) =>
          config.PrivateKeyPassphrase = EmptyStr

\* the password file holds one blank, SNOWFLAKE_PASSWORD holds a password
C29_Witness ==
    /\ PasswordMode /\ AccountAndUser
    /\ PasswordFile = FileWith(<<" ">>)
    /\ VarSet("SNOWFLAKE_PASSWORD")
    /\ LoadFailedWith(MissingCredential)

(***************************************************************************)
(* Properties of the dashboard page (checked under SpecPage)               *)
(***************************************************************************)
\* a fetch has just settled and the page was brought up to date without an
\* exception
Refreshed == aux.event.name = "settled" /\ aux.event.ok

\* C22 as claimed: after every successful refresh with no filter selected,
\* the page holds as many query cards as /api/queries returned queries, and
\* the "Failed Queries" statistic shows that number, whether the page was
\* first served with queries or with the "No Failed Queries" block.
C22_RefreshShowsReturnedQueries ==
    (Refreshed /\ aux.event.filter = "" /\ filterValue(aux) = "") =>
        /\ Len(aux.cards) = Len(aux.event.data)
        /\ aux.count = Len(aux.event.data)

\* C23 as claimed: once the page has loaded, no interval timer is active
\* while the tab is hidden and exactly one is while it is visible, and the
\* tab becoming visible leaves a refresh under way.
C23_OneTimerWhileVisible ==
    aux.loaded =>
        /\ aux.hidden => aux.timers = {}
        /\ ~aux.hidden => Cardinality(aux.timers) = 1
        /\ aux.event.name = "visible" => Len(aux.fetches) = 1

\* C28: at most one fetch of /api/queries is under way, whatever the order
\* of timer ticks, clicks, visibility changes and answers; isRefreshing is
\* true exactly while one is, and an event arriving meanwhile starts none.
C28_OneFetchInFlight ==
    /\ Len(aux.fetches) <= 1
    /\ aux.isRefreshing = (Len(aux.fetches) = 1)
    /\ aux.event.started => Len(aux.fetches) = 1
    /\ aux.hasControls => (aux.buttonDisabled = aux.isRefreshing)

\* a timer tick while a fetch is under way: no second fetch
C28_Witness ==
    /\ aux.event.name = "tick"
    /\ ~aux.event.started
    /\ aux.isRefreshing
    /\ Len(aux.fetches) = 1

\* the cards shown and the two statistics are those of the value the
\* dropdown has
FilterAgrees ==
    LET v    == filterValue(aux)
        want == {i \in 1..Len(aux.cards) : v = "" \/ aux.cards[i].user = v}
    IN  /\ visibleCards(aux) = want
        /\ aux.count = Cardinality(want)
        /\ aux.users = Cardinality({aux.cards[i].user : i \in want})

\* C30 as claimed: after a refresh that began with a user selected in the
\* filter, the visible cards and the statistics are those of the value the
\* dropdown now has, also when the user selected before is not among the
\* refreshed queries.
C30_FilterAgreesAfterRefresh ==
    (Refreshed /\ aux.event.filter # "") => FilterAgrees
====
